---- MODULE Spec2Model ----
(***************************************************************************)
(* Model of the VideoPreview compositor                                    *)
(* (src/src/react-app/components/VideoPreview.tsx): the layer ordering     *)
(* resolver, the base-layer selection, the playback clock synchronizer     *)
(* bound to videoRef, and the drag interaction controller; and of the     *)
(* job polling of the AI panel (pollForResult).                            *)
(*                                                                         *)
(* One action is one event delivered to the component by the host: a       *)
(* props change made by the project-state owner, a pointer event, a media  *)
(* event or an imperative call.  Each action contains the event handler,   *)
(* the render pass React schedules for the state or props it changed, the  *)
(* commit of that render (mount, unmount, ref detach and attach) and the   *)
(* effects whose dependencies changed.                                     *)
(*                                                                         *)
(* Time is counted in units of 0.05 s, so the 0.1 s tolerance is 2.        *)
(***************************************************************************)
EXTENDS Integers, Sequences, FiniteSets, TLC

\* ------------------------------------------------------------------ bounds
MaxLayers == 2
MaxSortLayers == 3
MaxTime == 3
MaxCoord == 1
MaxFields == 4
MaxAttempts == 3
MaxPrompts == 3
MaxScenes == 3
MaxDuration == 2

\* ---------------------------------------------------------------- constants
\* Math.abs(video.currentTime - target) > 0.1, in units of 0.05 s
Tolerance == 2

NULL == "null"
None == <<>>
Some(v) == <<v>>

AllIds == <<"A", "B", "C", "D">>
LayerIds == {AllIds[i] : i \in 1..MaxLayers}
SortLayerIds == {AllIds[i] : i \in 1..MaxSortLayers}

Times == 0..MaxTime
Coords == 0..MaxCoord
Buttons == {0, 2}

\* Track identifiers: the editor's tracks, and two lower-case spellings.
BaseTrack == "V1"
Tracks == {"V1", "V2"}
SortTracks == {"V1", "V2", "a1", "v2"}

\* The editor's six tracks: T1 (captions), V3 and V2 (overlays), V1 (base
\* video), A1 and A2 (audio).
EditorTracks == {"T1", "V3", "V2", "V1", "A1", "A2"}

AllTracks == Tracks \cup SortTracks \cup EditorTracks
Tailorings == {"lower", "upper"}

LayerTypes == {"video", "image", "audio"}

VARIABLES
    layers,         \* props.layers, in the order the owner supplies them
    isPlaying,      \* props.isPlaying
    caseFirst,      \* the host locale's tailoring used by localeCompare
    paintOrder,     \* sortedLayers as of the last render pass
    base,           \* baseVideoLayer as of the last render pass (None if absent)
    videoRef,       \* videoRef.current: the id of the element held, or NULL
    dom,            \* per layer id: the state of its media element
    draggingLayer,  \* useState draggingLayer
    dragStart,      \* useState dragStart (None if null)
    listeners,      \* the window's mousemove/mouseup listener pairs, in order
    pointer,        \* the last event if it was a pointer event, with its inputs
    gesture,        \* the pointer-down that began the gesture in progress
    emitted,        \* the requests emitted by the last event, in order
    ops,            \* the media operations performed by the last event, in order
    seekCheck,      \* if the last event changed the base clipTime: the
                    \* element held and the position of the base layer's
                    \* element, as the seek effect found them
    styles,         \* per painted layer: the styles of the last render pass
    supplied,       \* the layer set as the owner last supplied it
    mounted,        \* whether the component is mounted
    indicator,      \* whether the last render output holds "Dragging..."
    loaded,         \* the last event if a media element reported its data
                    \* available by it: the element, and whether it has
                    \* reported twice in a row
    poll,           \* the AI panel's call of pollForResult
    panel,          \* the AI panel: its processing state and its workflow
    picasso,        \* the image generation panel: its chat and its requests
    animation       \* the DynamicAnimation composition: props, duration, sequences

vars == <<layers, isPlaying, caseFirst, paintOrder, base, videoRef, dom,
          draggingLayer, dragStart, listeners, pointer, gesture, emitted, ops,
          seekCheck, styles, supplied, mounted, indicator, loaded, poll, panel, picasso, animation>>

\* The variables of the editor's other panels.
editorVars == <<panel, picasso, animation>>

\* The variables of the VideoPreview component.
previewVars == <<layers, isPlaying, caseFirst, paintOrder, base, videoRef, dom,
                 draggingLayer, dragStart, listeners, pointer, gesture, emitted,
                 ops, seekCheck, styles, supplied, mounted, indicator, loaded>>

\* ------------------------------------------------------- string comparison
\* The characters of each track identifier.
Chars(s) ==
    CASE s = "A1" -> <<"A", "1">>
      [] s = "A2" -> <<"A", "2">>
      [] s = "T1" -> <<"T", "1">>
      [] s = "V1" -> <<"V", "1">>
      [] s = "V2" -> <<"V", "2">>
      [] s = "V3" -> <<"V", "3">>
      [] s = "a1" -> <<"a", "1">>
      [] s = "v2" -> <<"v", "2">>

\* UTF-16 code unit of a character.
CodeUnit(c) ==
    CASE c = "1" -> 49
      [] c = "2" -> 50
      [] c = "3" -> 51
      [] c = "A" -> 65
      [] c = "T" -> 84
      [] c = "V" -> 86
      [] c = "a" -> 97
      [] c = "v" -> 118

\* Primary collation weight: digits before letters, letters alphabetically
\* whatever their case.
PrimaryWeight(c) ==
    CASE c = "1" -> 1
      [] c = "2" -> 2
      [] c = "3" -> 3
      [] c \in {"a", "A"} -> 10
      [] c \in {"t", "T"} -> 29
      [] c \in {"v", "V"} -> 31

IsUpper(c) == c \in {"A", "T", "V"}
IsLower(c) == c \in {"a", "t", "v"}

\* Tertiary (case) weight; which case comes first is the locale's choice.
CaseWeight(c, first) ==
    IF IsUpper(c) THEN (IF first = "upper" THEN 1 ELSE 2)
    ELSE IF IsLower(c) THEN (IF first = "upper" THEN 2 ELSE 1)
    ELSE 0

RECURSIVE LexCompare(_, _)
LexCompare(a, b) ==
    IF a = <<>> /\ b = <<>> THEN 0
    ELSE IF a = <<>> THEN -1
    ELSE IF b = <<>> THEN 1
    ELSE IF Head(a) < Head(b) THEN -1
    ELSE IF Head(a) > Head(b) THEN 1
    ELSE LexCompare(Tail(a), Tail(b))

CodeUnits(s) == [i \in 1..Len(Chars(s)) |-> CodeUnit(Chars(s)[i])]
PrimaryKey(s) == [i \in 1..Len(Chars(s)) |-> PrimaryWeight(Chars(s)[i])]
CaseKey(s, first) == [i \in 1..Len(Chars(s)) |-> CaseWeight(Chars(s)[i], first)]

\* Code-unit (ordinal) comparison: what a < b means on JavaScript strings.
OrdinalTable ==
    [s \in AllTracks |-> [t \in AllTracks |-> LexCompare(CodeUnits(s), CodeUnits(t))]]

ordinalCompare(s, t) == OrdinalTable[s][t]

\* String.prototype.localeCompare with the host's default locale: the
\* primary weights decide; case breaks a primary tie.
LocaleTable ==
    [first \in Tailorings |-> [s \in AllTracks |-> [t \in AllTracks |->
        LET p == LexCompare(PrimaryKey(s), PrimaryKey(t))
        IN  IF p # 0 THEN p ELSE LexCompare(CaseKey(s, first), CaseKey(t, first))]]]

localeCompare(s, t) == LocaleTable[caseFirst][s][t]

\* ------------------------------------------------------- ordering resolver
\* A sort that is not stable: an element is placed before the elements that
\* compare equal to it.
RECURSIVE InsertUnstable(_, _)
InsertUnstable(l, s) ==
    IF s = <<>> THEN <<l>>
    ELSE IF localeCompare(Head(s).trackId, l.trackId) < 0
         THEN <<Head(s)>> \o InsertUnstable(l, Tail(s))
         ELSE <<l>> \o s

\* Array.prototype.sort is stable: an element is placed after every element
\* that does not compare greater than it.
RECURSIVE Insert(_, _)
Insert(l, s) ==
    IF s = <<>> THEN <<l>>
    ELSE IF localeCompare(Head(s).trackId, l.trackId) <= 0
         THEN <<Head(s)>> \o Insert(l, Tail(s))
         ELSE <<l>> \o s

RECURSIVE sortedLayers(_)
sortedLayers(ls) ==
    IF ls = <<>> THEN <<>>
    ELSE Insert(ls[Len(ls)], sortedLayers(SubSeq(ls, 1, Len(ls) - 1)))

\* A sort of the props array itself, without the copy.
propsSortedInPlace(ls) == sortedLayers(ls)

\* [...layers].sort(...) sorts a copy: the array that was passed as props is
\* left as it is.
propsAfterSort(ls) == ls

\* ---------------------------------------------------- base layer selection
isBaseVideo(l) == l.trackId = BaseTrack /\ l.type = "video"
isOverlay(l) == l.trackId # BaseTrack

\* A selection that takes the last candidate instead of the first.
RECURSIVE findLastBase(_)
findLastBase(ls) ==
    IF ls = <<>> THEN None
    ELSE IF isBaseVideo(ls[Len(ls)]) THEN Some(ls[Len(ls)])
    ELSE findLastBase(SubSeq(ls, 1, Len(ls) - 1))

\* layers.find(l => l.trackId === 'V1' && l.type === 'video')
RECURSIVE baseVideoLayer(_)
baseVideoLayer(ls) ==
    IF ls = <<>> THEN None
    ELSE IF isBaseVideo(Head(ls)) THEN Some(Head(ls))
    ELSE baseVideoLayer(Tail(ls))

\* baseVideoLayer?.clipTime
clipTimeOf(b) == IF b = None THEN None ELSE Some(b[1].clipTime)

\* ------------------------------------------------------ transform resolver
\* A ClipTransform: every field is optional (None if absent).  The numbers
\* are integers; 0 is the one falsy number among them.
TransformFields ==
    {"x", "y", "scale", "rotation", "opacity",
     "cropTop", "cropBottom", "cropLeft", "cropRight"}

EmptyTransform == [f \in TransformFields |-> None]

NoTransform == None
Position(x, y) == Some([EmptyTransform EXCEPT !.x = Some(x), !.y = Some(y)])

\* v || 0 on an optional number
OrZero(opt) == IF opt = None THEN 0 ELSE opt[1]

\* A test of presence instead of truthiness.
TruthyPresent(opt) == opt # None

\* The truthiness of an optional number: undefined and 0 are falsy.
Truthy(opt) == opt # None /\ opt[1] # 0

\* One operation of the CSS transform list, e.g. translate(10px, 0px).
TransformOp(op, a, b) == [op |-> op, a |-> a, b |-> b]

\* A transform list that pushes the scale before the translation.
transformListScaleFirst(t) ==
    (IF Truthy(t.scale) /\ t.scale[1] # 1
     THEN <<TransformOp("scale", t.scale[1], 0)>> ELSE <<>>)
    \o (IF Truthy(t.x) \/ Truthy(t.y)
        THEN <<TransformOp("translate", OrZero(t.x), OrZero(t.y))>> ELSE <<>>)
    \o (IF Truthy(t.rotation)
        THEN <<TransformOp("rotate", t.rotation[1], 0)>> ELSE <<>>)

\* const transforms: string[] = []; the three pushes, in order
transformList(t) ==
    (IF Truthy(t.x) \/ Truthy(t.y)
     THEN <<TransformOp("translate", OrZero(t.x), OrZero(t.y))>> ELSE <<>>)
    \o (IF Truthy(t.scale) /\ t.scale[1] # 1
        THEN <<TransformOp("scale", t.scale[1], 0)>> ELSE <<>>)
    \o (IF Truthy(t.rotation)
        THEN <<TransformOp("rotate", t.rotation[1], 0)>> ELSE <<>>)

\* A crop whose insets are multiplied by the scale.
clipPathScaled(t) ==
    LET k == IF Truthy(t.scale) THEN t.scale[1] ELSE 1
        cropTop == OrZero(t.cropTop) * k
        cropBottom == OrZero(t.cropBottom) * k
        cropLeft == OrZero(t.cropLeft) * k
        cropRight == OrZero(t.cropRight) * k
    IN  IF cropTop # 0 \/ cropBottom # 0 \/ cropLeft # 0 \/ cropRight # 0
        THEN Some(<<cropTop, cropRight, cropBottom, cropLeft>>)
        ELSE None

\* Crop using clip-path: inset(top% right% bottom% left%), or undefined
clipPath(t) ==
    LET cropTop == OrZero(t.cropTop)
        cropBottom == OrZero(t.cropBottom)
        cropLeft == OrZero(t.cropLeft)
        cropRight == OrZero(t.cropRight)
        hasClip == cropTop # 0 \/ cropBottom # 0 \/ cropLeft # 0 \/ cropRight # 0
    IN  IF hasClip THEN Some(<<cropTop, cropRight, cropBottom, cropLeft>>)
        ELSE None

\* An opacity resolved with || instead of ??.
opacityOrOne(t) == IF Truthy(t.opacity) THEN t.opacity[1] ELSE 1

\* t.opacity ?? 1
opacity(t) == IF t.opacity = None THEN 1 ELSE t.opacity[1]

\* A resolver whose cursor hint is 'grab' when the layer is not dragged.
getTransformStylesGrab(transform, zIndex, isDragging) ==
    LET t == IF transform = None THEN EmptyTransform ELSE transform[1]
        transforms == transformList(t)
    IN  [zIndex |-> zIndex,
         transform |-> IF Len(transforms) > 0 THEN Some(transforms) ELSE None,
         opacity |-> opacity(t),
         clipPath |-> clipPath(t),
         cursor |-> IF isDragging THEN Some("grabbing") ELSE Some("grab")]

\* Helper to build CSS styles from transform
getTransformStyles(transform, zIndex, isDragging) ==
    LET t == IF transform = None THEN EmptyTransform ELSE transform[1]
        transforms == transformList(t)
    IN  [zIndex |-> zIndex,
         transform |-> IF Len(transforms) > 0 THEN Some(transforms) ELSE None,
         opacity |-> opacity(t),
         clipPath |-> clipPath(t),
         cursor |-> IF isDragging THEN Some("grabbing") ELSE None]

\* Styles whose zIndex is the index itself.
renderStylesFromZero(order, dl) ==
    [i \in 1..Len(order) |->
        getTransformStyles(order[i].transform, i - 1, dl = order[i].id)]

\* const styles = getTransformStyles(layer.transform, index + 1, isDragging),
\* for every layer of sortedLayers; nothing is mapped when layers is empty.
renderStyles(order, dl) ==
    [i \in 1..Len(order) |->
        getTransformStyles(order[i].transform, i, dl = order[i].id)]

\* if (layers.length === 0) return the placeholder; otherwise the output
\* holds {draggingLayer && <div>Dragging...</div>}.
draggingIndicator(ls, dl) == Len(ls) # 0 /\ dl # NULL

\* ------------------------------------------------------------ render commit
IdUniverse == {AllIds[i] : i \in 1..Len(AllIds)}

\* State of a media element: its position and whether it is paused.
DefaultEl == [currentTime |-> 0, paused |-> TRUE]

\* A media operation: what is done to which element, by which part of the
\* component ("seek effect", "play effect", "handleLoaded", "seekTo").
NoTime == -1
SeekOp(el, t, by) == [op |-> "seek", el |-> el, at |-> t, by |-> by]
PlayOp(el) == [op |-> "play", el |-> el, at |-> NoTime, by |-> "play effect"]
PauseOp(el) == [op |-> "pause", el |-> el, at |-> NoTime, by |-> "play effect"]

Abs(n) == IF n < 0 THEN -n ELSE n

\* The layers that render an element, in paint order: a video layer renders
\* a <video>, an image layer a <div>, any other layer renders null.
RenderedLayers(order) == SelectSeq(order, LAMBDA l : l.type \in {"video", "image"})

HasElement(order, id, type) ==
    \E i \in 1..Len(order) : order[i].id = id /\ order[i].type = type

\* A ref given to every <video>, whatever its track.
HasRefAnyVideo(order, id) ==
    \E i \in 1..Len(order) : order[i].id = id /\ order[i].type = "video"

\* ref={isBaseVideo ? videoRef : undefined}, on the <video> branch only
HasRef(order, id) ==
    \E i \in 1..Len(order) :
        order[i].id = id /\ order[i].type = "video" /\ isBaseVideo(order[i])

\* An element is kept across a commit if its key (layer.id) is rendered with
\* the same element type before and after; otherwise it is unmounted and, if
\* still rendered, a new element is mounted.
Kept(old, new, id) ==
    \E type \in {"video", "image"} : HasElement(old, id, type) /\ HasElement(new, id, type)

commitDom(old, new, d) ==
    [id \in DOMAIN d |-> IF Kept(old, new, id) THEN d[id] ELSE DefaultEl]

\* React's commit of the refs.  Mutation phase: the ref of every element that
\* is unmounted, or whose ref prop changed, is detached (ref.current = null,
\* whatever it held).  Layout phase: every element that is mounted with the
\* ref, or whose ref prop changed to it, attaches itself, in tree order.
commitRef(old, new, ref) ==
    LET detached == \E id \in IdUniverse :
                        HasRef(old, id) /\ (~Kept(old, new, id) \/ ~HasRef(new, id))
        attaching == SelectSeq(RenderedLayers(new),
                        LAMBDA l : HasRef(new, l.id)
                                   /\ (~Kept(old, new, l.id) \/ ~HasRef(old, l.id)))
    IN  IF attaching # <<>> THEN attaching[Len(attaching)].id
        ELSE IF detached THEN NULL
        ELSE ref

\* ----------------------------------------------------------------- effects
\* A seek effect without the early return on isPlaying.
seekEffectWhilePlaying(ref, b, playing, d) ==
    IF ref = NULL \/ b = None THEN [dom |-> d, ops |-> <<>>]
    ELSE LET target == b[1].clipTime
         IN  IF Abs(d[ref].currentTime - target) > Tolerance
             THEN [dom |-> [d EXCEPT ![ref].currentTime = target],
                   ops |-> <<SeekOp(ref, target, "seek effect")>>]
             ELSE [dom |-> d, ops |-> <<>>]

\* Seek control for base video (deps: baseVideoLayer?.clipTime, isPlaying)
seekEffect(ref, b, playing, d) ==
    IF ref = NULL \/ b = None THEN [dom |-> d, ops |-> <<>>]
    ELSE IF playing THEN [dom |-> d, ops |-> <<>>]
    ELSE LET target == b[1].clipTime
         IN  IF Abs(d[ref].currentTime - target) > Tolerance
             THEN [dom |-> [d EXCEPT ![ref].currentTime = target],
                   ops |-> <<SeekOp(ref, target, "seek effect")>>]
             ELSE [dom |-> d, ops |-> <<>>]

\* Play/pause control for base video (deps: isPlaying, baseVideoLayer).
\* playOk: whether the element accepts the play request; a rejection is
\* swallowed by .catch(() => {}).
playPauseEffect(ref, b, playing, d, playOk) ==
    IF ref = NULL \/ b = None THEN [dom |-> d, ops |-> <<>>]
    ELSE IF playing
         THEN [dom |-> [d EXCEPT ![ref].paused = IF playOk THEN FALSE ELSE @],
               ops |-> <<PlayOp(ref)>>]
         ELSE [dom |-> [d EXCEPT ![ref].paused = TRUE],
               ops |-> <<PauseOp(ref)>>]

\* The listener pair registered by one run of the drag effect: the closures
\* of handleMouseMove and handleMouseUp over draggingLayer and dragStart.
Closure(dl, ds) == [layerId |-> dl, start |-> ds[1]]

RECURSIVE RemoveFirst(_, _)
RemoveFirst(s, e) ==
    IF s = <<>> THEN <<>>
    ELSE IF Head(s) = e THEN Tail(s)
    ELSE <<Head(s)>> \o RemoveFirst(Tail(s), e)

\* A drag effect that registers listeners without removing those of its
\* previous run.
dragEffectNoCleanup(ls, oldDL, oldDS, newDL, newDS, changed) ==
    IF ~changed THEN ls
    ELSE IF newDL = NULL \/ newDS = None THEN <<>>
    ELSE Append(ls, Closure(newDL, newDS))

\* Handle mouse move for dragging (deps: draggingLayer, dragStart,
\* onLayerMove): the cleanup of the previous run removes its listeners, then
\* the effect registers new ones unless !draggingLayer || !dragStart.
dragEffect(ls, oldDL, oldDS, newDL, newDS, changed) ==
    IF ~changed THEN ls
    ELSE LET cleaned == IF oldDL = NULL \/ oldDS = None THEN ls
                        ELSE RemoveFirst(ls, Closure(oldDL, oldDS))
         IN  IF newDL = NULL \/ newDS = None THEN cleaned
             ELSE Append(cleaned, Closure(newDL, newDS))

\* A pointer event: its kind, the layer whose element it hit with that
\* layer's track (mousedown), the button, the client coordinates (mousemove)
\* and the layer that was being dragged when it arrived.  NoPointer: the
\* last event was of another kind.
Event(kind) ==
    [kind |-> kind, id |-> NULL, trackId |-> NULL, button |-> 0, x |-> 0, y |-> 0,
     prev |-> NULL]

NoPointer == Event("none")

\* ------------------------------------------------------------- render pass
\* One render pass with its commit and effects.  ls, playing: the props;
\* dl, ds: the drag state the pass renders; newStart: dragStart, or
\* onLayerMove, is a new object; owner: the props come anew from the owner, who may then have
\* supplied a new object for an unchanged base layer (fresh).  playOk:
\* whether the element accepts a play request.
RenderPass(ls, playing, dl, ds, newStart, owner) ==
    \E order \in {sortedLayers(ls)}, b \in {baseVideoLayer(ls)} :
    \E ref \in {commitRef(paintOrder, order, videoRef)},
       d0 \in {commitDom(paintOrder, order, dom)} :
    \E s \in {IF clipTimeOf(base) # clipTimeOf(b) \/ isPlaying # playing
              THEN seekEffect(ref, b, playing, d0)
              ELSE [dom |-> d0, ops |-> <<>>]} :
    LET depsChanged == isPlaying # playing \/ base # b
        bound == ref # NULL /\ b # None
        dragRuns == draggingLayer # dl \/ dragStart # ds \/ newStart
    IN  /\ mounted
        /\ layers' = propsAfterSort(ls)
        /\ styles' = renderStyles(order, dl)
        /\ indicator' = draggingIndicator(ls, dl)
        /\ isPlaying' = playing
        /\ paintOrder' = order
        /\ base' = b
        /\ videoRef' = ref
        /\ draggingLayer' = dl
        /\ dragStart' = ds
        /\ listeners' = dragEffect(listeners, draggingLayer, dragStart, dl, ds, dragRuns)
        /\ UNCHANGED <<caseFirst, mounted, poll, editorVars>>
        /\ seekCheck' = IF clipTimeOf(base) # clipTimeOf(b) /\ b # None
                        THEN Some([held |-> ref, live |-> d0[b[1].id].currentTime])
                        ELSE None
        /\ \E fresh \in IF owner /\ bound /\ ~depsChanged THEN BOOLEAN ELSE {FALSE} :
           \E playOk \in IF bound /\ playing /\ (depsChanged \/ fresh)
                         THEN BOOLEAN ELSE {TRUE} :
              LET p == IF depsChanged \/ fresh
                       THEN playPauseEffect(ref, b, playing, s.dom, playOk)
                       ELSE [dom |-> s.dom, ops |-> <<>>]
              IN  /\ dom' = p.dom
                  /\ ops' = s.ops \o p.ops

\* A render pass caused by new props: the drag state is what it was.
PropsChange(ls, playing) ==
    /\ RenderPass(ls, playing, draggingLayer, dragStart, FALSE, TRUE)
    /\ supplied' = ls
    /\ loaded' = None
    /\ pointer' = NoPointer
    /\ emitted' = <<>>
    /\ UNCHANGED gesture

\* ------------------------------------------------- AI panel: job polling
\* What one status request can come to: the fetch fails (network), the
\* response is not ok (HTTP), or the body reports the job as still being
\* processed, as complete, or as failed, with or without a message.
StatusResponse(kind, error) == [kind |-> kind, error |-> error]

PollResponses ==
    {StatusResponse(k, None) :
        k \in {"network failure", "http failure", "processing", "complete", "error"}}
    \cup {StatusResponse("error", Some("job failed"))}

TimedOut == "Request timed out after 60 seconds"

\* No call of pollForResult has been made.
PollIdle ==
    [pc |-> "idle", maxAttempts |-> 0, attempt |-> 0, requests |-> 0,
     responses |-> <<>>, message |-> None]

\* A loop that goes on while attempt <= maxAttempts.
nextAttemptInclusive(p) ==
    IF p.attempt + 1 <= p.maxAttempts
    THEN [p EXCEPT !.attempt = @ + 1]
    ELSE [p EXCEPT !.attempt = @ + 1, !.pc = "rejected", !.message = Some(TimedOut)]

\* The end of one pass of the for loop that neither returned nor threw out
\* of the function: after the wait, attempt++ and the loop test; when the
\* loop is left the function throws the time-out error.
nextAttempt(p) ==
    IF p.attempt + 1 < p.maxAttempts
    THEN [p EXCEPT !.attempt = @ + 1]
    ELSE [p EXCEPT !.attempt = @ + 1, !.pc = "rejected", !.message = Some(TimedOut)]

\* One pass of the for loop of pollForResult with the response r to its
\* status request.  Everything thrown inside the try block, the Error made
\* for status 'error' included, is caught by the catch, which logs, waits
\* and lets the loop go on.
pollAttempt(p, r) ==
    LET q == [p EXCEPT !.requests = @ + 1, !.responses = Append(@, r)]
    IN  IF r.kind \in {"network failure", "http failure"} THEN nextAttempt(q)
        ELSE IF r.kind = "complete" THEN [q EXCEPT !.pc = "returned"]
        ELSE IF r.kind = "error" THEN nextAttempt(q)
        ELSE nextAttempt(q)

\* pollForResult(jobId, maxAttempts) is called.
StartPoll ==
    \E m \in 0..MaxAttempts :
        /\ poll.pc = "idle"
        /\ poll' = IF m > 0 THEN [PollIdle EXCEPT !.pc = "polling", !.maxAttempts = m]
                   ELSE [PollIdle EXCEPT !.pc = "rejected", !.message = Some(TimedOut)]
        /\ UNCHANGED <<previewVars, editorVars>>

\* A status request comes to its response.
PollStep ==
    \E r \in PollResponses :
        /\ poll.pc = "polling"
        /\ poll' = pollAttempt(poll, r)
        /\ UNCHANGED <<previewVars, editorVars>>

\* The panel is ready for another job once the call has settled.
PollSettled ==
    /\ poll.pc \in {"returned", "rejected"}
    /\ poll' = PollIdle
    /\ UNCHANGED <<previewVars, editorVars>>

\* ------------------------------------------------- AI panel: the workflows
\* String.prototype.includes
includes(text, part) ==
    \E i \in 1..(Len(text) - Len(part) + 1) : SubSeq(text, i, i + Len(part) - 1) = part

UpperCase == "ABCDEFGHIJKLMNOPQRSTUVWXYZ"
LowerCase == "abcdefghijklmnopqrstuvwxyz"

lowerChar(c) ==
    IF \E i \in 1..Len(UpperCase) : SubSeq(UpperCase, i, i) = c
    THEN LET i == CHOOSE j \in 1..Len(UpperCase) : SubSeq(UpperCase, j, j) = c
         IN  SubSeq(LowerCase, i, i)
    ELSE c

\* String.prototype.toLowerCase
RECURSIVE toLowerCase(_)
toLowerCase(text) ==
    IF Len(text) = 0 THEN ""
    ELSE lowerChar(SubSeq(text, 1, 1)) \o toLowerCase(SubSeq(text, 2, Len(text)))

\* String.prototype.trim
RECURSIVE trim(_)
trim(text) ==
    IF Len(text) = 0 THEN ""
    ELSE IF SubSeq(text, 1, 1) = " " THEN trim(SubSeq(text, 2, Len(text)))
    ELSE IF SubSeq(text, Len(text), Len(text)) = " " THEN trim(SubSeq(text, 1, Len(text) - 1))
    ELSE text

\* Check if prompt is asking for auto-GIF extraction
isAutoGifPrompt(text) ==
    LET lower == toLowerCase(text)
    IN  \/ includes(lower, "add gif")
        \/ includes(lower, "gif animation")
        \/ includes(lower, "extract keyword")
        \/ includes(lower, "find keyword")
        \/ includes(lower, "auto gif")
        \/ includes(lower, "smart gif")
        \/ includes(lower, "overlay gif")
        \/ includes(lower, "brand gif")

\* Check if prompt is asking for captions/subtitles
isCaptionPrompt(text) ==
    LET lower == toLowerCase(text)
    IN  \/ includes(lower, "caption")
        \/ includes(lower, "subtitle")
        \/ includes(lower, "transcribe")
        \/ includes(lower, "transcript")
        \/ includes(lower, "add text")
        \/ includes(lower, "speech to text")

\* Check if prompt is asking for B-roll images
isBrollPrompt(text) ==
    LET lower == toLowerCase(text)
    IN  \/ includes(lower, "b-roll")
        \/ includes(lower, "broll")
        \/ includes(lower, "b roll")
        \/ includes(lower, "add image")
        \/ includes(lower, "generate image")
        \/ includes(lower, "ai image")
        \/ includes(lower, "visual overlay")
        \/ includes(lower, "stock image")

\* Check if prompt is asking for chapter-based cuts
isChapterCutPrompt(text) ==
    LET lower == toLowerCase(text)
    IN  \/ includes(lower, "chapter") /\ (includes(lower, "cut") \/ includes(lower, "split"))
        \/ includes(lower, "review") /\ includes(lower, "chapter") /\ includes(lower, "cut")
        \/ includes(lower, "cut at chapter")
        \/ includes(lower, "split by chapter")
        \/ includes(lower, "chapter markers")
        \/ includes(lower, "auto chapter")
        \/ includes(lower, "identify") /\ includes(lower, "chapter") /\ includes(lower, "cut")
        \/ includes(lower, "detect") /\ includes(lower, "chapter") /\ includes(lower, "cut")
        \/ includes(lower, "find") /\ includes(lower, "chapter") /\ includes(lower, "cut")

\* Check if prompt is asking for dead air/silence removal
isDeadAirPrompt(text) ==
    LET lower == toLowerCase(text)
    IN  \/ includes(lower, "dead air")
        \/ includes(lower, "silence")
        \/ includes(lower, "remove pauses")
        \/ includes(lower, "cut pauses")
        \/ includes(lower, "remove gaps")
        \/ includes(lower, "trim silence")
        \/ includes(lower, "delete silence")
        \/ includes(lower, "remove") /\ includes(lower, "quiet")

\* Check if prompt is asking for transcript-based animation
isTranscriptAnimationPrompt(text) ==
    LET lower == toLowerCase(text)
    IN  \/ includes(lower, "animate") /\ includes(lower, "transcript")
        \/ includes(lower, "animate") /\ includes(lower, "words")
        \/ includes(lower, "animate") /\ includes(lower, "speech")
        \/ includes(lower, "animate") /\ includes(lower, "what") /\ includes(lower, "said")
        \/ includes(lower, "kinetic typography")
        \/ includes(lower, "kinetic text")
        \/ includes(lower, "animated words")
        \/ includes(lower, "word animation")
        \/ includes(lower, "show") /\ includes(lower, "text") /\ includes(lower, "sync")
        \/ includes(lower, "text") /\ includes(lower, "sync") /\ includes(lower, "audio")
        \/ includes(lower, "visualize") /\ includes(lower, "transcript")
        \/ includes(lower, "visualize") /\ includes(lower, "speech")
        \/ includes(lower, "animated") /\ includes(lower, "transcript")
        \/ includes(lower, "transcript") /\ includes(lower, "overlay") /\ includes(lower, "animate")

\* Check if prompt is asking for a contextual animation
isContextualAnimationPrompt(text) ==
    LET lower == toLowerCase(text)
    IN  IF \/ includes(lower, "intro")
           \/ includes(lower, "introduction")
           \/ includes(lower, "opening")
           \/ includes(lower, "start") /\ (includes(lower, "animation") \/ includes(lower, "video"))
           \/ includes(lower, "beginning") /\ includes(lower, "animation")
        THEN [isMatch |-> TRUE, type |-> "intro"]
        ELSE IF \/ includes(lower, "outro")
                \/ includes(lower, "ending")
                \/ includes(lower, "conclusion")
                \/ includes(lower, "end") /\ (includes(lower, "animation") \/ includes(lower, "video"))
                \/ includes(lower, "closing")
        THEN [isMatch |-> TRUE, type |-> "outro"]
        ELSE IF \/ includes(lower, "transition")
                \/ includes(lower, "between scene")
                \/ includes(lower, "scene change")
        THEN [isMatch |-> TRUE, type |-> "transition"]
        ELSE IF \/ includes(lower, "highlight")
                \/ includes(lower, "key moment")
                \/ includes(lower, "important part")
        THEN [isMatch |-> TRUE, type |-> "highlight"]
        ELSE [isMatch |-> FALSE, type |-> "intro"]

\* Check if prompt is asking for a custom AI-generated animation
isCustomAnimationPrompt(text) ==
    LET lower == toLowerCase(text)
        has(part) == includes(lower, part)
        hasAnimationKeyword == has("animation") \/ has("animate") \/ has("animated")
        hasCreationVerb == \/ has("create") \/ has("make") \/ has("generate")
                           \/ has("build") \/ has("design") \/ has("produce")
        hasShowVerb == \/ has("show") \/ has("display") \/ has("visualize")
                       \/ has("illustrate") \/ has("depict") \/ has("portray")
        hasCreativeContent ==
            \/ has("company") \/ has("brand") \/ has("logo")
            \/ has("character") \/ has("story") \/ has("scene")
            \/ has("battle") \/ has("versus") \/ has(" vs ")
            \/ has("destroy") \/ has("fight") \/ has("compete")
            \/ has("transform") \/ has("evolve") \/ has("journey")
    IN  \/ hasCreationVerb /\ hasAnimationKeyword
        \/ hasShowVerb /\ hasAnimationKeyword
        \/ hasShowVerb /\ hasCreativeContent
        \/ has("animate") /\ (has("explanation") \/ has("how") \/ has("showing"))
        \/ has("product walkthrough")
        \/ has("feature demo")
        \/ has("explainer video")
        \/ has("step by step animation")
        \/ has("demo video")
        \/ has("promo video")
        \/ has("promotional animation")
        \/ has("visualize") /\ (has("concept") \/ has("process") \/ has("workflow"))
        \/ hasCreativeContent /\ (hasAnimationKeyword \/ has("video"))
        \/ has("in the animation")
        \/ has("in an animation")
        \/ has("getting") /\ hasCreativeContent

\* Check if prompt is asking for motion graphics / animated overlays
isMotionGraphicsPrompt(text) ==
    LET lower == toLowerCase(text)
    IN  \/ \E part \in {"lower third", "lowerthird", "name title", "animated text",
                        "text animation", "counter animation", "number counter",
                        "count up", "progress bar", "call to action", "cta button",
                        "subscribe button", "like button", "logo reveal",
                        "logo animation", "intro animation", "outro animation",
                        "screen mockup", "device mockup", "browser mockup",
                        "phone mockup", "testimonial", "social proof", "before after",
                        "comparison", "chart animation", "animated chart",
                        "data visualization", "pie chart", "bar chart"} :
               includes(lower, part)
        \/ includes(lower, "motion") /\ includes(lower, "graphic")

\* The workflows that set isProcessing.
Workflows ==
    {"regular AI edit", "caption", "GIF", "B-roll", "dead-air", "chapter-cut",
     "motion-graphic", "custom animation", "contextual animation",
     "transcript animation", "concept approval"}

\* Where the chain of tests of handleSubmit sends a prompt: to a workflow, to
\* the caption options, to the request to upload a video first, or nowhere
\* (an empty prompt).
handleSubmitTarget(prompt, hasVideo) ==
    LET userMessage == trim(prompt)
        gated(w) == IF ~hasVideo THEN "upload a video first" ELSE w
    IN  IF Len(userMessage) = 0 THEN "none"
        ELSE IF isCaptionPrompt(userMessage) THEN gated("caption options")
        ELSE IF isAutoGifPrompt(userMessage) THEN gated("GIF")
        ELSE IF isBrollPrompt(userMessage) THEN gated("B-roll")
        ELSE IF isDeadAirPrompt(userMessage) THEN gated("dead-air")
        ELSE IF isChapterCutPrompt(userMessage) THEN gated("chapter-cut")
        ELSE IF isTranscriptAnimationPrompt(userMessage) THEN gated("transcript animation")
        ELSE IF isContextualAnimationPrompt(userMessage).isMatch THEN "contextual animation"
        ELSE IF isCustomAnimationPrompt(userMessage) THEN "custom animation"
        ELSE IF isMotionGraphicsPrompt(userMessage) THEN "motion-graphic"
        ELSE "regular AI edit"

\* typeLabels
typeLabels(type) ==
    CASE type = "intro" -> "intro animation"
      [] type = "outro" -> "outro animation"
      [] type = "transition" -> "transition"
      [] type = "highlight" -> "highlight animation"

\* The status each workflow sets when it begins.
StatusAtStart(w, prompt) ==
    CASE w = "regular AI edit" -> "Starting AI..."
      [] w = "caption" -> "Starting transcription..."
      [] w = "GIF" -> "Starting keyword extraction..."
      [] w = "B-roll" -> "Starting B-roll generation..."
      [] w = "dead-air" -> "Detecting silence..."
      [] w = "chapter-cut" -> "Analyzing video for chapters..."
      [] w = "motion-graphic" -> "Parsing motion graphic request..."
      [] w = "custom animation" -> "Generating custom animation with AI..."
      [] w = "contextual animation" ->
             "Analyzing video for "
                 \o typeLabels(isContextualAnimationPrompt(trim(prompt)).type) \o "..."
      [] w = "transcript animation" -> "Analyzing transcript for animation..."
      [] w = "concept approval" -> "Rendering animation..."

\* The panel before anything was submitted.
PanelIdle ==
    [isProcessing |-> FALSE, processingStatus |-> "", workflow |-> NULL,
     showCaptionOptions |-> FALSE, pendingAnimationConcept |-> FALSE,
     dispatched |-> None, settled |-> None]

\* The beginning of a workflow, up to its try block: the test of its
\* callback (the regular AI edit has none), then setIsProcessing(true) and
\* setProcessingStatus.
startWorkflow(p, w, prompt, callback) ==
    IF w # "regular AI edit" /\ ~callback THEN p
    ELSE [p EXCEPT !.isProcessing = TRUE,
                   !.processingStatus = StatusAtStart(w, prompt),
                   !.workflow = w,
                   !.showCaptionOptions = IF w = "caption" THEN FALSE ELSE @]

\* The ways a workflow's try block ends: it runs to its end, something in it
\* throws (and the catch reports it), or it returns early.
Outcomes(w) ==
    IF w = "motion-graphic" THEN {"done", "failed", "returned early"}
    ELSE {"done", "failed"}

\* What the try block has set when it ends.
tryBlock(p, outcome) ==
    IF p.workflow = "contextual animation" /\ outcome = "done"
    THEN [p EXCEPT !.pendingAnimationConcept = TRUE]
    ELSE IF p.workflow = "concept approval" /\ outcome = "done"
    THEN [p EXCEPT !.pendingAnimationConcept = FALSE]
    ELSE p

\* finally { setIsProcessing(false); setProcessingStatus('') }
finallyBlock(p) == [p EXCEPT !.isProcessing = FALSE, !.processingStatus = ""]

\* A workflow with the two resets after its try statement instead of in a
\* finally block: a return in the try block leaves without them.
settleAfterTry(p, outcome) ==
    [(IF outcome = "returned early" THEN tryBlock(p, outcome)
      ELSE finallyBlock(tryBlock(p, outcome)))
        EXCEPT !.workflow = NULL,
               !.dispatched = None,
               !.settled = Some([workflow |-> p.workflow, outcome |-> outcome])]

\* The workflow in progress settles.
settle(p, outcome) ==
    [finallyBlock(tryBlock(p, outcome))
        EXCEPT !.workflow = NULL,
               !.dispatched = None,
               !.settled = Some([workflow |-> p.workflow, outcome |-> outcome])]

\* The prompts typed or picked: the quick actions of the panel, and others.
Suggestions ==
    {"Add captions", "Remove dead air / silence", "Remove background noise",
     "Speed up by 1.5x", "Add GIF animations", "Add B-roll images",
     "Cut at chapters", "Create demo animation", "Animate transcript"}

Prompts ==
    Suggestions \cup
    {"", "  ", " Kinetic typography ", "ANIMATE MY WORDS", "Add an outro",
     "Add a lower third for John", "Visualize the transcript"}

\* The form is submitted (the input and the send button are disabled while
\* isProcessing or without a video).
Submit ==
    \E prompt \in Prompts, callback \in BOOLEAN :
        /\ ~panel.isProcessing
        /\ LET target == handleSubmitTarget(prompt, TRUE)
               q == [panel EXCEPT !.dispatched = Some([prompt |-> prompt, target |-> target]),
                                  !.settled = None]
           IN  panel' = IF target = "none" THEN q
                        ELSE IF target = "caption options"
                        THEN [q EXCEPT !.showCaptionOptions = TRUE]
                        ELSE startWorkflow(q, target, prompt, callback)
        /\ UNCHANGED <<previewVars, poll, picasso, animation>>

\* "Add Captions" of the caption options (disabled while isProcessing).
AddCaptions ==
    \E callback \in BOOLEAN :
        /\ panel.showCaptionOptions
        /\ ~panel.isProcessing
        /\ panel' = startWorkflow([panel EXCEPT !.dispatched = None, !.settled = None],
                                  "caption", "", callback)
        /\ UNCHANGED <<previewVars, poll, picasso, animation>>

\* "Cancel" of the caption options.
CancelCaptions ==
    /\ panel.showCaptionOptions
    /\ panel' = [panel EXCEPT !.showCaptionOptions = FALSE, !.dispatched = None,
                              !.settled = None]
    /\ UNCHANGED <<previewVars, poll, picasso, animation>>

\* handleApproveAnimation (its button is disabled while isProcessing)
handleApproveAnimation(p, callback) ==
    IF ~p.pendingAnimationConcept \/ ~callback THEN p
    ELSE startWorkflow(p, "concept approval", "", TRUE)

ApproveAnimation ==
    \E callback \in BOOLEAN :
        /\ panel.pendingAnimationConcept
        /\ ~panel.isProcessing
        /\ panel' = handleApproveAnimation([panel EXCEPT !.dispatched = None,
                                                         !.settled = None], callback)
        /\ UNCHANGED <<previewVars, poll, picasso, animation>>

\* handleCancelAnimation (its button is disabled while isProcessing)
CancelAnimation ==
    /\ panel.pendingAnimationConcept
    /\ ~panel.isProcessing
    /\ panel' = [panel EXCEPT !.pendingAnimationConcept = FALSE, !.dispatched = None,
                              !.settled = None]
    /\ UNCHANGED <<previewVars, poll, picasso, animation>>

\* The status a workflow sets while it is under way: the chapter cuts once,
\* the regular AI edit at every attempt of pollForResult.
StatusUnderWay(w) ==
    IF w = "chapter-cut" THEN {"Transcribing and identifying chapters..."}
    ELSE IF w = "regular AI edit"
    THEN {"AI is working... (" \o ToString(attempt + 1) \o "s)" : attempt \in 0..(MaxAttempts - 1)}
    ELSE {}

WorkflowProgress ==
    \E status \in StatusUnderWay(panel.workflow) :
        /\ panel' = [panel EXCEPT !.processingStatus = status, !.dispatched = None]
        /\ UNCHANGED <<previewVars, poll, picasso, animation>>

\* The workflow in progress comes to its end.
WorkflowSettles ==
    \E outcome \in Outcomes(panel.workflow) :
        /\ panel.workflow # NULL
        /\ panel' = settle(panel, outcome)
        /\ UNCHANGED <<previewVars, poll, picasso, animation>>

\* ---------------------------------------------- image generation panel
\* Check if prompt contains dimension/orientation keywords
hasDimensionKeywords(text) ==
    LET lower == toLowerCase(text)
        dimensionWords ==
            {"square", "horizontal", "vertical", "portrait", "landscape",
             "wide", "tall", "widescreen", "ultrawide", "16:9", "9:16", "1:1",
             "4:3", "3:2", "21:9", "aspect ratio", "dimensions"}
    IN  \E word \in dimensionWords : includes(lower, word)

\* Map user choice to aspect ratio
getDimensionAspectRatio(choice) ==
    CASE choice = "horizontal" -> "16:9"
      [] choice = "vertical" -> "9:16"
      [] choice = "square" -> "1:1"

DimensionChoices == {"horizontal", "vertical", "square"}

\* The aspect ratio handleSubmit finds in a prompt; aspectRatio is the
\* setting of the panel.
detectedRatio(userMessage, aspectRatio) ==
    LET lower == toLowerCase(userMessage)
    IN  IF includes(lower, "square") \/ includes(lower, "1:1") THEN "1:1"
        ELSE IF \/ includes(lower, "vertical") \/ includes(lower, "portrait")
                \/ includes(lower, "tall") \/ includes(lower, "9:16") THEN "9:16"
        ELSE IF \/ includes(lower, "horizontal") \/ includes(lower, "landscape")
                \/ includes(lower, "wide") \/ includes(lower, "16:9") THEN "16:9"
        ELSE IF includes(lower, "ultrawide") \/ includes(lower, "21:9") THEN "21:9"
        ELSE aspectRatio

ChatMessage(type, text, awaitingDimension, pendingPrompt) ==
    [type |-> type, text |-> text, awaitingDimension |-> awaitingDimension,
     pendingPrompt |-> pendingPrompt]

\* The panel as mounted: the greeting, nothing being generated.  requests
\* are the calls of generateImage made so far, submitted the prompts that
\* passed the guard of handleSubmit.
PicassoIdle ==
    [messages |-> <<ChatMessage("assistant", "Hi!", FALSE, None)>>,
     isGenerating |-> FALSE, aspectRatio |-> "16:9",
     requests |-> <<>>, submitted |-> {}, selected |-> None]

\* generateImage up to its fetch
generateImage(p, imagePrompt, ratio) ==
    [p EXCEPT !.isGenerating = TRUE,
              !.requests = Append(@, [prompt |-> imagePrompt, aspectRatio |-> ratio])]

\* The places of the messages that await a dimension choice.
Awaiting(messages) == {i \in 1..Len(messages) : messages[i].awaitingDimension}

\* handleSubmit of the image generation panel
picassoSubmit(p, prompt, sessionId) ==
    LET userMessage == trim(prompt)
    IN  IF Len(userMessage) = 0 \/ p.isGenerating \/ ~sessionId THEN p
        ELSE IF ~hasDimensionKeywords(userMessage)
        THEN [p EXCEPT !.submitted = @ \cup {userMessage},
                       !.selected = None,
                       !.messages = @ \o
                           <<ChatMessage("user", userMessage, FALSE, None),
                             ChatMessage("assistant", "What dimensions would you like?",
                                         TRUE, Some(userMessage))>>]
        ELSE generateImage([p EXCEPT !.submitted = @ \cup {userMessage},
                                     !.selected = None,
                                     !.messages = Append(@, ChatMessage("user", userMessage,
                                                                         FALSE, None))],
                           userMessage, detectedRatio(userMessage, p.aspectRatio))

\* handleDimensionSelect: the prompt of the last awaiting message is
\* generated and every awaiting message is marked as answered.  asked is the
\* message whose button was pressed.
handleDimensionSelect(p, choice, asked) ==
    LET awaiting == Awaiting(p.messages)
    IN  IF awaiting = {} THEN p
        ELSE LET last == CHOOSE i \in awaiting : \A j \in awaiting : j <= i
                 lastAwaitingMessage == p.messages[last]
             IN  IF lastAwaitingMessage.pendingPrompt = None THEN p
                 ELSE generateImage(
                          [p EXCEPT !.messages =
                                        [i \in 1..Len(p.messages) |->
                                            IF p.messages[i].awaitingDimension
                                            THEN [p.messages[i] EXCEPT
                                                      !.awaitingDimension = FALSE,
                                                      !.text = "Got it! Creating a "
                                                               \o choice \o " image..."]
                                            ELSE p.messages[i]],
                                    !.selected = Some(p.messages[asked].pendingPrompt[1])],
                          lastAwaitingMessage.pendingPrompt[1],
                          getDimensionAspectRatio(choice))

\* The prompts typed into the panel.
PicassoPrompts == {"a cat", "a dog", "a Square logo", "tall tree", " "}

\* The send button or Enter.
PicassoSubmit ==
    \E prompt \in PicassoPrompts, sessionId \in BOOLEAN :
        /\ trim(prompt) \notin picasso.submitted
        /\ Cardinality(picasso.submitted) < MaxPrompts
        /\ picasso' = picassoSubmit(picasso, prompt, sessionId)
        /\ UNCHANGED <<previewVars, poll, panel, animation>>

\* One of the three buttons of a message that awaits a dimension choice
\* (disabled while isGenerating).
DimensionSelect ==
    \E asked \in Awaiting(picasso.messages), choice \in DimensionChoices :
        /\ ~picasso.isGenerating
        /\ picasso' = handleDimensionSelect(picasso, choice, asked)
        /\ UNCHANGED <<previewVars, poll, panel, animation>>

\* The request of generateImage settles: the image or the error is shown.
GenerateSettles ==
    \E ok \in BOOLEAN :
        /\ picasso.isGenerating
        /\ picasso' = [picasso EXCEPT
                           !.isGenerating = FALSE,
                           !.selected = None,
                           !.messages = Append(@, ChatMessage("assistant",
                                                   IF ok THEN "Here's your generated image!"
                                                   ELSE "Sorry, I encountered an error",
                                                   FALSE, None))]
        /\ UNCHANGED <<previewVars, poll, panel, animation>>

\* ------------------------------------------------------ dynamic animation
\* The fallbacks of calculateDuration: for a scene whose duration is falsy,
\* and for props without scenes.
FallbackSceneDuration == 60
FallbackDuration == 300

Scene(duration) == [duration |-> duration]

\* props.scenes.reduce((sum, scene) => sum + (scene.duration || 60), 0)
RECURSIVE reduceDurations(_)
reduceDurations(scenes) ==
    IF scenes = <<>> THEN 0
    ELSE LET scene == scenes[Len(scenes)]
         IN  reduceDurations(SubSeq(scenes, 1, Len(scenes) - 1))
             + (IF scene.duration # 0 THEN scene.duration ELSE FallbackSceneDuration)

\* calculateDuration: a truthy totalDuration, else the reduced durations of
\* a non-empty scene list, else the fallback.
calculateDuration(props) ==
    IF props.totalDuration # None /\ props.totalDuration[1] # 0
    THEN props.totalDuration[1]
    ELSE IF Len(props.scenes) > 0 THEN reduceDurations(props.scenes)
    ELSE FallbackDuration

\* frameOffset before scene number index (from 1) is mapped.
RECURSIVE frameOffset(_, _)
frameOffset(scenes, index) ==
    IF index = 1 THEN 0
    ELSE frameOffset(scenes, index - 1) + scenes[index - 1].duration

\* DynamicAnimation: one Sequence per scene, from the running frameOffset.
DynamicAnimation(scenes) ==
    [index \in 1..Len(scenes) |->
        [from |-> frameOffset(scenes, index),
         durationInFrames |-> scenes[index].duration]]

\* The composition as registered: no scenes, 300 frames, nothing rendered.
DefaultProps == [scenes |-> <<>>, totalDuration |-> None]
AnimationIdle ==
    [props |-> DefaultProps, durationInFrames |-> FallbackDuration,
     sequences |-> <<>>, rendered |-> FALSE]

SceneLists ==
    UNION {[1..n -> {Scene(d) : d \in 0..MaxDuration}] : n \in 0..MaxScenes}

\* The props given on the command line: calculateMetadata sets the duration
\* of the composition.
CalculateMetadata ==
    \E scenes \in SceneLists, totalDuration \in {None, Some(0), Some(MaxDuration)} :
        LET props == [scenes |-> scenes, totalDuration |-> totalDuration]
        IN  /\ animation' = [props |-> props,
                             durationInFrames |-> calculateDuration(props),
                             sequences |-> <<>>, rendered |-> FALSE]
            /\ UNCHANGED <<previewVars, poll, panel, picasso>>

\* The composition is rendered with its props.
RenderAnimation ==
    /\ ~animation.rendered
    /\ animation' = [animation EXCEPT
                         !.sequences = DynamicAnimation(animation.props.scenes),
                         !.rendered = TRUE]
    /\ UNCHANGED <<previewVars, poll, panel, picasso>>

\* ------------------------------------------------------------------- state
\* layer.transform?.x || 0
layerX(l) == IF l.transform = None THEN 0 ELSE OrZero(l.transform[1].x)

\* A layerY read from the x field.
layerYFromX(l) == layerX(l)

\* layer.transform?.y || 0
layerY(l) == IF l.transform = None THEN 0 ELSE OrZero(l.transform[1].y)

Layer(id, type, trackId, clipTime, transform) ==
    [id |-> id, type |-> type, trackId |-> trackId, clipTime |-> clipTime,
     transform |-> transform]

InsertAt(s, i, e) == SubSeq(s, 1, i - 1) \o <<e>> \o SubSeq(s, i, Len(s))
RemoveAt(s, i) == SubSeq(s, 1, i - 1) \o SubSeq(s, i + 1, Len(s))
IdsOf(s) == {s[i].id : i \in 1..Len(s)}

\* The component as mounted with its default props (layers = [], isPlaying =
\* false): nothing is rendered but the placeholder, every effect has run and
\* found nothing to do.
InitWith(tailorings) ==
    /\ layers = <<>>
    /\ isPlaying = FALSE
    /\ caseFirst \in tailorings
    /\ paintOrder = <<>>
    /\ base = None
    /\ videoRef = NULL
    /\ dom = [id \in IdUniverse |-> DefaultEl]
    /\ draggingLayer = NULL
    /\ dragStart = None
    /\ listeners = <<>>
    /\ pointer = NoPointer
    /\ gesture = None
    /\ emitted = <<>>
    /\ ops = <<>>
    /\ seekCheck = None
    /\ styles = <<>>
    /\ supplied = <<>>
    /\ mounted = TRUE
    /\ indicator = FALSE
    /\ loaded = None
    /\ poll = PollIdle
    /\ panel = PanelIdle
    /\ picasso = PicassoIdle
    /\ animation = AnimationIdle

Init == InitWith({"lower"})

\* ------------------------------------------------- the owner's props changes
\* The owner adds a layer (clipTime 0, no transform) at any place of the set.
AddLayerOf(ids, types, tracks, cap) ==
    /\ Len(layers) < cap
    /\ \E id \in ids \ IdsOf(layers), type \in types, t \in tracks,
          i \in 1..(Len(layers) + 1) :
          PropsChange(InsertAt(layers, i, Layer(id, type, t, 0, NoTransform)), isPlaying)

RemoveLayer ==
    \E i \in 1..Len(layers) : PropsChange(RemoveAt(layers, i), isPlaying)

\* The owner moves a layer to another track.
SetTrackOf(tracks) ==
    \E i \in 1..Len(layers) : \E t \in tracks \ {layers[i].trackId} :
        PropsChange([layers EXCEPT ![i].trackId = t], isPlaying)

\* The playhead moves over the primary track: the clipTime of a video layer
\* on it changes.
SetClipTime ==
    \E i \in 1..Len(layers) : \E c \in Times \ {layers[i].clipTime} :
        /\ isBaseVideo(layers[i])
        /\ PropsChange([layers EXCEPT ![i].clipTime = c], isPlaying)

\* The owner applies the move request the component has just emitted (as
\* far as the position stays on the canvas).
ApplyMove ==
    \E k \in 1..Len(emitted), i \in 1..Len(layers) :
        /\ emitted[k].req = "onLayerMove"
        /\ layers[i].id = emitted[k].layerId
        /\ emitted[k].x \in Coords /\ emitted[k].y \in Coords
        /\ PropsChange([layers EXCEPT ![i].transform = Position(emitted[k].x, emitted[k].y)],
                       isPlaying)

SetIsPlaying ==
    PropsChange(layers, ~isPlaying)

\* The values the owner gives to the fields of a transform: zero, ordinary
\* values, and values out of the ordinary range (negative, over 100).
FieldValues(f) ==
    CASE f \in {"x", "y"} -> {0, 10}
      [] f = "scale" -> {0, 1, 2, -1}
      [] f = "rotation" -> {0, 90}
      [] f = "opacity" -> {0, 1, 5, -1}
      [] OTHER -> {0, 50, -5, 150}

TransformOf(l) == IF l.transform = None THEN EmptyTransform ELSE l.transform[1]
PresentFields(t) == {f \in TransformFields : t[f] # None}

\* The owner sets one field of a layer's transform (at most MaxFields fields
\* are present in a transform).
SetTransformField ==
    \E i \in 1..Len(layers), f \in TransformFields :
        \E v \in FieldValues(f) :
            LET t == TransformOf(layers[i])
            IN  /\ Cardinality(PresentFields(t) \cup {f}) <= MaxFields
                /\ t[f] # Some(v)
                /\ PropsChange([layers EXCEPT
                                    ![i].transform = Some([t EXCEPT ![f] = Some(v)])],
                               isPlaying)

\* The owner removes one field of a layer's transform, or the transform.
ClearTransformField ==
    \E i \in 1..Len(layers), f \in TransformFields :
        LET t == TransformOf(layers[i])
        IN  /\ t[f] # None
            /\ PropsChange([layers EXCEPT ![i].transform = Some([t EXCEPT ![f] = None])],
                           isPlaying)

\* The value of a field that has no effect: scale 1, opacity 1, 0 otherwise.
IdentityValue(f) == IF f \in {"scale", "opacity"} THEN 1 ELSE 0

\* The owner gives a layer without transform one that spells out the
\* no-effect values of some fields, of all of them or of none, leaving the
\* others absent.
SetIdentityFields ==
    \E i \in 1..Len(layers), F \in SUBSET TransformFields :
        LET t == [f \in TransformFields |->
                     IF f \in F THEN Some(IdentityValue(f)) ELSE None]
        IN  /\ layers[i].transform = NoTransform
            /\ PropsChange([layers EXCEPT ![i].transform = Some(t)], isPlaying)

ClearTransform ==
    \E i \in 1..Len(layers) :
        /\ layers[i].transform # NoTransform
        /\ PropsChange([layers EXCEPT ![i].transform = NoTransform], isPlaying)

\* The owner passes a new onLayerMove callback: a dependency of the drag
\* effect has changed.
ChangeOnLayerMove ==
    /\ RenderPass(layers, isPlaying, draggingLayer, dragStart, TRUE, TRUE)
    /\ loaded' = None
    /\ pointer' = NoPointer
    /\ emitted' = <<>>
    /\ UNCHANGED <<gesture, supplied>>

\* An unmount that leaves the listeners of the last run of the drag effect.
unmountNoCleanup(ls, dl, ds) == ls

\* The cleanup of the last run of the drag effect, which React calls when the
\* component is unmounted.
unmountCleanup(ls, dl, ds) ==
    IF dl = NULL \/ ds = None THEN ls ELSE RemoveFirst(ls, Closure(dl, ds))

\* The owner unmounts the component: its elements leave the document, its
\* refs are detached, the cleanups of its effects run and its state is gone.
Unmount ==
    /\ mounted
    /\ mounted' = FALSE
    /\ listeners' = unmountCleanup(listeners, draggingLayer, dragStart)
    /\ paintOrder' = <<>>
    /\ styles' = <<>>
    /\ indicator' = FALSE
    /\ base' = None
    /\ videoRef' = NULL
    /\ dom' = [id \in IdUniverse |-> DefaultEl]
    /\ draggingLayer' = NULL
    /\ dragStart' = None
    /\ loaded' = None
    /\ pointer' = NoPointer
    /\ emitted' = <<>>
    /\ ops' = <<>>
    /\ seekCheck' = None
    /\ UNCHANGED <<layers, supplied, isPlaying, caseFirst, gesture, poll, editorVars>>

\* ------------------------------------------------------------ pointer events
SelectRequest(id) == [req |-> "onLayerSelect", layerId |-> id, x |-> 0, y |-> 0]
MoveRequest(id, x, y) == [req |-> "onLayerMove", layerId |-> id, x |-> x, y |-> y]

\* The guards without the test of e.button.
StartsDragAnyButton(layer, button) ==
    isOverlay(layer) /\ ~(layer.trackId = BaseTrack)

\* The guards of handleLayerMouseDown, behind the wiring
\* onMouseDown={isOverlay ? ... : undefined}.
StartsDrag(layer, button) ==
    /\ isOverlay(layer)
    /\ ~(layer.trackId = BaseTrack)
    /\ ~(button # 0)

\* What the interface takes a gesture to begin with: the layer, its track and
\* its position when a primary button went down on it, and where the pointer
\* was.  It is kept from that pointer-down until the next pointer-up, apart
\* from the component's own state.
Down(layer, cx, cy) ==
    [layerId |-> layer.id, trackId |-> layer.trackId, x |-> cx, y |-> cy,
     layerX |-> layerX(layer), layerY |-> layerY(layer)]

\* Whether the element rendered for a layer is hit by pointer events: a
\* <video> is; the <div> of an image has pointerEvents 'auto' if the layer is
\* an overlay and 'none' otherwise; other layers render nothing.
AcceptsPointer(layer) ==
    \/ layer.type = "video"
    \/ layer.type = "image" /\ isOverlay(layer)

\* A mouse button goes down on the element of a rendered layer.  Where the
\* pointer is matters only to a primary button on an overlay: nothing else
\* reads clientX and clientY.
MouseDown ==
    \E i \in 1..Len(paintOrder), button \in Buttons :
    \E cx \in IF button = 0 /\ isOverlay(paintOrder[i]) THEN Coords ELSE {0},
       cy \in IF button = 0 /\ isOverlay(paintOrder[i]) THEN Coords ELSE {0} :
        LET layer == paintOrder[i] IN
        /\ AcceptsPointer(layer)
        /\ loaded' = None
        /\ pointer' = [Event("mousedown") EXCEPT !.id = layer.id,
                                                 !.trackId = layer.trackId,
                                                 !.button = button,
                                                 !.prev = draggingLayer]
        /\ gesture' = IF button = 0 /\ layer.trackId # BaseTrack
                      THEN Some(Down(layer, cx, cy))
                      ELSE gesture
        /\ IF StartsDrag(layer, button)
           THEN /\ RenderPass(layers, isPlaying, layer.id,
                              Some([x |-> cx, y |-> cy,
                                    layerX |-> layerX(layer), layerY |-> layerY(layer)]),
                              TRUE, FALSE)
                /\ emitted' = <<SelectRequest(layer.id)>>
                /\ UNCHANGED supplied
           ELSE /\ emitted' = <<>>
                /\ ops' = <<>>
                /\ seekCheck' = None
                /\ UNCHANGED <<poll, editorVars, mounted, indicator, layers, supplied, styles, isPlaying, caseFirst, paintOrder, base, videoRef,
                               dom, draggingLayer, dragStart, listeners>>

\* A handler that selects the layer at every move.
handleMouseMoveSelecting(l, cx, cy) ==
    [req |-> "onLayerSelect", layerId |-> l.layerId, x |-> 0, y |-> 0]

\* A handler that adds the client position instead of the pointer's
\* displacement from dragStart.
handleMouseMoveDrift(l, cx, cy) ==
    MoveRequest(l.layerId, l.start.layerX + cx, l.start.layerY + cy)

\* handleMouseMove of one registered listener pair
handleMouseMove(l, cx, cy) ==
    MoveRequest(l.layerId,
                l.start.layerX + (cx - l.start.x),
                l.start.layerY + (cy - l.start.y))

\* The pointer moves anywhere in the window: every registered mousemove
\* listener runs.
MouseMove ==
    \E cx \in Coords, cy \in Coords :
        /\ loaded' = None
        /\ pointer' = [Event("mousemove") EXCEPT !.x = cx, !.y = cy, !.prev = draggingLayer]
        /\ UNCHANGED gesture
        /\ emitted' = [k \in 1..Len(listeners) |-> handleMouseMove(listeners[k], cx, cy)]
        /\ ops' = <<>>
        /\ seekCheck' = None
        /\ UNCHANGED <<poll, editorVars, mounted, indicator, layers, supplied, styles, isPlaying, caseFirst, paintOrder, base, videoRef, dom,
                       draggingLayer, dragStart, listeners>>

\* A handler that ends the drag for the primary button only.
handleMouseUpPrimaryOnly(button) ==
    IF button = 0 THEN [draggingLayer |-> NULL, dragStart |-> None]
    ELSE [draggingLayer |-> draggingLayer, dragStart |-> dragStart]

\* handleMouseUp: setDraggingLayer(null); setDragStart(null)
handleMouseUp(button) ==
    [draggingLayer |-> NULL, dragStart |-> None]

\* A mouse button goes up anywhere in the window: every registered mouseup
\* listener runs, then the state change is rendered (a state change of an
\* unmounted component is dropped).
MouseUp ==
    \E button \in Buttons :
        /\ loaded' = None
        /\ pointer' = [Event("mouseup") EXCEPT !.button = button, !.prev = draggingLayer]
        /\ gesture' = None
        /\ IF listeners # <<>> /\ mounted
           THEN LET st == handleMouseUp(button)
                IN  /\ RenderPass(layers, isPlaying, st.draggingLayer, st.dragStart,
                                  FALSE, FALSE)
                    /\ UNCHANGED supplied
           ELSE /\ ops' = <<>>
                /\ seekCheck' = None
                /\ UNCHANGED <<poll, editorVars, mounted, indicator, layers, supplied, styles, isPlaying, caseFirst, paintOrder, base, videoRef,
                               dom, draggingLayer, dragStart, listeners>>
        /\ emitted' = <<>>

\* -------------------------------------------------------------- media events
\* handleLoaded, wired as onLoadedData of the elements rendered for a layer
\* with isBaseVideo: it writes the element that videoRef holds.
handleLoaded(d) ==
    IF videoRef # NULL /\ base # None
    THEN [dom |-> [d EXCEPT ![videoRef].currentTime = base[1].clipTime],
          ops |-> <<SeekOp(videoRef, base[1].clipTime, "handleLoaded")>>]
    ELSE [dom |-> d, ops |-> <<>>]

\* The report of one element, and whether the event before it was a report
\* of the same element.
Report(id, again) == [el |-> id, again |-> again]

\* A media element reports that its data is available.
LoadedData ==
    \E id \in IdUniverse :
        /\ HasElement(paintOrder, id, "video")
        /\ IF HasRef(paintOrder, id)
           THEN LET r == handleLoaded(dom) IN dom' = r.dom /\ ops' = r.ops
           ELSE dom' = dom /\ ops' = <<>>
        /\ loaded' = Some(Report(id, loaded # None /\ loaded[1].el = id))
        /\ pointer' = NoPointer
        /\ UNCHANGED gesture
        /\ emitted' = <<>>
        /\ seekCheck' = None
        /\ UNCHANGED <<poll, editorVars, mounted, indicator, layers, supplied, styles, isPlaying, caseFirst, paintOrder, base, videoRef,
                       draggingLayer, dragStart, listeners>>

\* A seekTo without the test of videoRef.current.
seekToUnguarded(time, d) ==
    IF videoRef # NULL
    THEN [dom |-> [d EXCEPT ![videoRef].currentTime = time],
          ops |-> <<SeekOp(videoRef, time, "seekTo")>>]
    ELSE [dom |-> d, ops |-> <<SeekOp(videoRef, time, "seekTo")>>]

\* seekTo of the imperative handle
seekTo(time, d) ==
    IF videoRef # NULL
    THEN [dom |-> [d EXCEPT ![videoRef].currentTime = time],
          ops |-> <<SeekOp(videoRef, time, "seekTo")>>]
    ELSE [dom |-> d, ops |-> <<>>]

SeekTo ==
    \E time \in Times :
        /\ mounted
        /\ LET r == seekTo(time, dom) IN dom' = r.dom /\ ops' = r.ops
        /\ loaded' = None
        /\ pointer' = NoPointer
        /\ UNCHANGED gesture
        /\ emitted' = <<>>
        /\ seekCheck' = None
        /\ UNCHANGED <<poll, editorVars, mounted, indicator, layers, supplied, styles, isPlaying, caseFirst, paintOrder, base, videoRef,
                       draggingLayer, dragStart, listeners>>

\* The browser's playback clock advances the position of a playing element.
Playback ==
    \E id \in IdUniverse :
        /\ HasElement(paintOrder, id, "video")
        /\ ~dom[id].paused
        /\ dom[id].currentTime < MaxTime
        /\ dom' = [dom EXCEPT ![id].currentTime = @ + 1]
        /\ loaded' = None
        /\ pointer' = NoPointer
        /\ UNCHANGED gesture
        /\ ops' = <<>>
        /\ emitted' = <<>>
        /\ seekCheck' = None
        /\ UNCHANGED <<poll, editorVars, mounted, indicator, layers, supplied, styles, isPlaying, caseFirst, paintOrder, base, videoRef,
                       draggingLayer, dragStart, listeners>>

\* ------------------------------------------------------------ specifications
\* The ordering resolver on layer sets whose track identifiers mix cases,
\* under either tailoring of the host locale.
OrderInit == InitWith(Tailorings)
OrderAddLayer == AddLayerOf(SortLayerIds, {"image"}, SortTracks, MaxSortLayers)
OrderSetTrack == SetTrackOf(SortTracks)

OrderNext ==
    \/ OrderAddLayer
    \/ RemoveLayer
    \/ OrderSetTrack

OrderSpec == OrderInit /\ [][OrderNext]_vars

\* The ordering resolver on layer sets drawn from the editor's six tracks.
ConventionTypes == {"image", "audio"}
ConventionAddLayer ==
    AddLayerOf(SortLayerIds, ConventionTypes, EditorTracks, MaxSortLayers)
ConventionSetTrack == SetTrackOf(EditorTracks)

ConventionNext ==
    \/ ConventionAddLayer
    \/ RemoveLayer
    \/ ConventionSetTrack

ConventionSpec == Init /\ [][ConventionNext]_vars

\* The drag interaction controller: pointer events, and an owner that adds,
\* removes, retracks and repositions layers.
DragTypes == {"video", "image"}
DragAddLayer == AddLayerOf(LayerIds, DragTypes, Tracks, MaxLayers)
SetTrack == SetTrackOf(Tracks)

DragNext ==
    \/ DragAddLayer
    \/ RemoveLayer
    \/ SetTrack
    \/ MouseDown
    \/ MouseMove
    \/ MouseUp

DragSpec == Init /\ [][DragNext]_vars

\* The playback clock synchronizer: the owner's playhead and play intent,
\* media events and the imperative handle.
ClockAddLayer == AddLayerOf(LayerIds, {"video", "image"}, Tracks, MaxLayers)

ClockNext ==
    \/ ClockAddLayer
    \/ RemoveLayer
    \/ SetTrack
    \/ SetClipTime
    \/ SetIsPlaying
    \/ LoadedData
    \/ SeekTo
    \/ Playback

ClockSpec == Init /\ [][ClockNext]_vars

\* The arithmetic of a drag: pointer events on overlay layers of either
\* kind, and an owner who applies the requested moves.
MoveAddLayer == AddLayerOf(LayerIds, DragTypes, {"V2"}, MaxLayers)

MoveNext ==
    \/ MoveAddLayer
    \/ RemoveLayer
    \/ ApplyMove
    \/ MouseDown
    \/ MouseMove
    \/ MouseUp

MoveSpec == Init /\ [][MoveNext]_vars

\* The life of a drag session: pointer events on image layers, an owner that
\* changes the layer set and the onLayerMove callback, and the unmounting of
\* the component.
SessionAddLayer == AddLayerOf(LayerIds, {"image"}, Tracks, MaxLayers)

SessionNext ==
    \/ SessionAddLayer
    \/ RemoveLayer
    \/ SetTrack
    \/ ApplyMove
    \/ ChangeOnLayerMove
    \/ Unmount
    \/ MouseDown
    \/ MouseMove
    \/ MouseUp

SessionSpec == Init /\ [][SessionNext]_vars

\* The AI panel's polling of a job's status.
PollNext ==
    \/ StartPoll
    \/ PollStep
    \/ PollSettled

PollSpec == Init /\ [][PollNext]_vars

\* Every status request that was issued settles, with a response or with a
\* failure, and the timer of every wait fires.
PollFairSpec == PollSpec /\ WF_vars(PollStep)

\* The AI panel's workflows.
PanelNext ==
    \/ Submit
    \/ AddCaptions
    \/ CancelCaptions
    \/ ApproveAnimation
    \/ CancelAnimation
    \/ WorkflowProgress
    \/ WorkflowSettles

PanelSpec == Init /\ [][PanelNext]_vars

\* The image generation panel.
PicassoNext ==
    \/ PicassoSubmit
    \/ DimensionSelect
    \/ GenerateSettles

PicassoSpec == Init /\ [][PicassoNext]_vars

\* The DynamicAnimation composition.
AnimationNext ==
    \/ CalculateMetadata
    \/ RenderAnimation

AnimationSpec == Init /\ [][AnimationNext]_vars

\* The transform resolver: one overlay layer whose transform the owner edits
\* field by field.
TransformAddLayer == AddLayerOf({AllIds[1]}, {"image"}, Tracks \ {BaseTrack}, 1)

TransformNext ==
    \/ TransformAddLayer
    \/ SetTransformField
    \/ ClearTransformField
    \/ ClearTransform
    \/ SetIdentityFields

TransformSpec == Init /\ [][TransformNext]_vars

\* ------------------------------------------------------------------- claims
IndexOf(s, id) == CHOOSE i \in 1..Len(s) : s[i].id = id
IsPermutation(s, t) ==
    /\ Len(s) = Len(t)
    /\ \A i \in 1..Len(s) : \E j \in 1..Len(t) : t[j] = s[i]
    /\ \A j \in 1..Len(t) : \E i \in 1..Len(s) : s[i] = t[j]

\* C1: sortedLayers returns a permutation of the input whose trackIds are
\* non-decreasing under ordinal (code-unit) string comparison, also when the
\* trackIds mix upper- and lower-case letters.
C1_OrdinalOrder ==
    /\ IsPermutation(layers, paintOrder)
    /\ \A i \in 1..Len(paintOrder) : \A j \in i..Len(paintOrder) :
           ordinalCompare(paintOrder[i].trackId, paintOrder[j].trackId) <= 0

\* C2: the ordering resolver is stable (two layers with equal trackId keep
\* their relative input order) and deterministic (resolving the same layer
\* set again, or resolving the output, yields the same sequence).
C2_StableDeterministic ==
    /\ IsPermutation(layers, paintOrder)
    /\ \A i \in 1..Len(layers) : \A j \in (i + 1)..Len(layers) :
           layers[i].trackId = layers[j].trackId
               => IndexOf(paintOrder, layers[i].id) < IndexOf(paintOrder, layers[j].id)
    /\ sortedLayers(layers) = paintOrder
    /\ sortedLayers(paintOrder) = paintOrder

\* A layer set that the resolver reorders and in which two layers share a
\* track, with a layer of another track between them.
C2_Witness ==
    /\ paintOrder # layers
    /\ \E i \in 1..Len(layers) : \E j \in (i + 2)..Len(layers) :
           /\ layers[i].trackId = layers[j].trackId
           /\ layers[i + 1].trackId # layers[i].trackId

\* C3: at most one drag session exists; a qualifying pointer-down on another
\* layer while a session is active replaces the session, and every later
\* pointer-move emits exactly one onLayerMove, for the layer of the last
\* qualifying pointer-down.
C3_SingleSession ==
    /\ Len(listeners) <= 1
    /\ gesture # None =>
           /\ draggingLayer = gesture[1].layerId
           /\ listeners = <<Closure(draggingLayer, dragStart)>>
    /\ (pointer.kind = "mousemove" /\ gesture # None) =>
           /\ Len(emitted) = 1
           /\ emitted[1].req = "onLayerMove"
           /\ emitted[1].layerId = gesture[1].layerId

\* A qualifying pointer-down on one layer has replaced the session of
\* another layer: the one listener pair is that of the new session.
C3_Witness ==
    /\ pointer.kind = "mousedown"
    /\ pointer.prev # NULL
    /\ pointer.prev # pointer.id
    /\ draggingLayer = pointer.id
    /\ Len(listeners) = 1
    /\ listeners[1].layerId = pointer.id

\* C4: while a session for layer L with pointerOrigin p0 and layerOrigin o is
\* active, a pointer-move to p emits exactly onLayerMove(L, o.x + (p.x - p0.x),
\* o.y + (p.y - p0.y)); p0 and o are those of the gesture's pointer-down,
\* whatever moves came before and whatever the owner has applied since.
C4_MoveFromOrigin ==
    (pointer.kind = "mousemove" /\ gesture # None) =>
        LET g == gesture[1]
        IN  /\ emitted = <<MoveRequest(g.layerId,
                                       g.layerX + (pointer.x - g.x),
                                       g.layerY + (pointer.y - g.y))>>
            /\ dragStart = Some([x |-> g.x, y |-> g.y,
                                 layerX |-> g.layerX, layerY |-> g.layerY])

\* A pointer-move of a gesture that did not begin at the client origin, on a
\* layer that the owner has moved since the gesture began.
C4_Witness ==
    /\ pointer.kind = "mousemove"
    /\ gesture # None
    /\ gesture[1].x # 0
    /\ gesture[1].y # pointer.y
    /\ \E i \in 1..Len(layers) :
           /\ layers[i].id = gesture[1].layerId
           /\ layerX(layers[i]) # gesture[1].layerX
           /\ emitted = <<MoveRequest(layers[i].id,
                                      gesture[1].layerX + (pointer.x - gesture[1].x),
                                      gesture[1].layerY + (pointer.y - gesture[1].y))>>

\* C5: a pointer-down starts a drag session only if it is a primary-button
\* press on a layer off the base track 'V1'; any other pointer-down leaves
\* the controller state as it was and emits nothing, so every request
\* carries the id of a layer that was off the base track at its pointer-down.
C5_QualifyingDownOnly ==
    /\ (draggingLayer # NULL \/ dragStart # None \/ listeners # <<>>) =>
           /\ gesture # None
           /\ gesture[1].trackId # "V1"
           /\ draggingLayer = gesture[1].layerId
           /\ dragStart = Some([x |-> gesture[1].x, y |-> gesture[1].y,
                                layerX |-> gesture[1].layerX,
                                layerY |-> gesture[1].layerY])
    /\ (pointer.kind = "mousedown" /\ ~(pointer.button = 0 /\ pointer.trackId # "V1")) =>
           /\ emitted = <<>>
           /\ draggingLayer = pointer.prev
    /\ \A k \in 1..Len(emitted) :
           /\ gesture # None
           /\ gesture[1].trackId # "V1"
           /\ emitted[k].layerId = gesture[1].layerId

\* A non-primary pointer-down on an overlay layer, or a pointer-down on a
\* layer of the base track, while another layer is being dragged.
C5_Witness ==
    /\ pointer.kind = "mousedown"
    /\ pointer.prev # NULL
    /\ pointer.prev # pointer.id
    /\ \/ pointer.trackId = "V1" /\ pointer.button = 0
       \/ pointer.trackId # "V1" /\ pointer.button # 0
    /\ draggingLayer = pointer.prev

\* C6: any pointer-up while a drag session is active, whatever its button,
\* returns the controller to Idle with layerId, pointerOrigin and layerOrigin
\* cleared (and the listeners removed).
C6_PointerUpEndsSession ==
    pointer.kind = "mouseup" =>
        /\ draggingLayer = NULL
        /\ dragStart = None
        /\ listeners = <<>>

\* A pointer-up of a non-primary button that ended a session.
C6_Witness ==
    /\ pointer.kind = "mouseup"
    /\ pointer.prev # NULL
    /\ pointer.button # 0
    /\ draggingLayer = NULL

\* C7: the base layer is the first layer, in input order, whose trackId is
\* 'V1' and whose kind is video; there is one exactly when such a layer
\* exists.
C7_FirstCandidateIsBase ==
    LET candidates == {i \in 1..Len(layers) :
                          layers[i].trackId = "V1" /\ layers[i].type = "video"}
    IN  /\ base = None <=> candidates = {}
        /\ candidates # {} =>
               \E i \in candidates :
                   /\ base = Some(layers[i])
                   /\ \A j \in candidates : i <= j

\* Two candidates: the first of them is the base.
C7_Witness ==
    /\ Cardinality({i \in 1..Len(layers) :
                       layers[i].trackId = "V1" /\ layers[i].type = "video"}) >= 2
    /\ base # None
    /\ base[1] = layers[1]
    /\ layers[2].id # layers[1].id

\* C8: the one element that the synchronizer seeks, plays and pauses, and
\* that seekTo and getVideoElement expose, is the element rendered for the
\* selected base layer, also when two or more layers are videos on 'V1'.
C8_HandleIsBaseElement ==
    /\ videoRef # NULL => (base # None /\ videoRef = base[1].id)
    /\ \A k \in 1..Len(ops) : base # None /\ ops[k].el = base[1].id

\* C9: while a base layer is present and isPlaying is false, when the base
\* layer's clipTime changes the position of the base layer's element is
\* forced to clipTime if and only if it is more than 0.1 s away from it.
C9_SeekTolerance ==
    (seekCheck # None /\ ~isPlaying) =>
        LET el == base[1].id
            live == seekCheck[1].live
            target == base[1].clipTime
            forced == Abs(live - target) > Tolerance
        IN  /\ (\E k \in 1..Len(ops) : ops[k].op = "seek") <=> forced
            /\ forced => ops[1] = SeekOp(el, target, "seek effect")
            /\ dom[el].currentTime = IF forced THEN target ELSE live

\* C10 as stated: while isPlaying is true nothing but an explicit seekTo
\* writes the position of a media element.
C10_NoWriteWhilePlaying ==
    isPlaying => \A k \in 1..Len(ops) : ops[k].op = "seek" => ops[k].by = "seekTo"

\* C10: while isPlaying is true the seek effect never writes a position: no
\* props change during playback forces a seek; the position is written
\* during playback only by handleLoaded and by seekTo.
C10_NoSeekEffectWhilePlaying ==
    isPlaying =>
        \A k \in 1..Len(ops) :
            ops[k].op = "seek" => ops[k].by \in {"handleLoaded", "seekTo"}

\* A render pass during playback that issued a play request to the held
\* element, more than the tolerance away from the base layer's clipTime, and
\* did not seek it.
C10_Witness ==
    /\ isPlaying
    /\ base # None
    /\ videoRef # NULL
    /\ Abs(dom[videoRef].currentTime - base[1].clipTime) > Tolerance
    /\ ops = <<PlayOp(videoRef)>>

\* The rank of an operation in the order translate, scale, rotate.
OpRank(o) ==
    CASE o.op = "translate" -> 1
      [] o.op = "scale" -> 2
      [] o.op = "rotate" -> 3

ListOf(style) == IF style.transform = None THEN <<>> ELSE style.transform[1]

\* C13: the operations of the resolved transform list appear in the order
\* translate, scale, rotate, and none appears twice.
C13_FixedOrder ==
    \A i \in 1..Len(styles) :
        LET list == ListOf(styles[i])
        IN  \A a \in 1..Len(list) : \A b \in (a + 1)..Len(list) :
                OpRank(list[a]) < OpRank(list[b])

\* {x: 10, y: 0, scale: 2, rotation: 90} resolved to translate, scale, rotate.
C13_Witness ==
    /\ Len(styles) = 1
    /\ TransformOf(paintOrder[1]).y = Some(0)
    /\ ListOf(styles[1]) = <<TransformOp("translate", 10, 0),
                             TransformOp("scale", 2, 0),
                             TransformOp("rotate", 90, 0)>>

\* C14: the list has a translate operation iff x or y is non-zero (with both
\* coordinates, an absent one as 0), a scale operation iff scale is present
\* and other than 1 (a scale of 0 or a negative scale included), a rotate
\* operation iff rotation is non-zero; no transform when none applies.
C14_OperationsPresent ==
    \A i \in 1..Len(styles) :
        LET t == TransformOf(paintOrder[i])
            list == ListOf(styles[i])
            has(o) == \E k \in 1..Len(list) : list[k] = o
            hasKind(op) == \E k \in 1..Len(list) : list[k].op = op
        IN  /\ hasKind("translate") <=> (OrZero(t.x) # 0 \/ OrZero(t.y) # 0)
            /\ hasKind("translate") => has(TransformOp("translate", OrZero(t.x), OrZero(t.y)))
            /\ hasKind("scale") <=> (t.scale # None /\ t.scale[1] # 1)
            /\ hasKind("scale") => has(TransformOp("scale", t.scale[1], 0))
            /\ hasKind("rotate") <=> OrZero(t.rotation) # 0
            /\ hasKind("rotate") => has(TransformOp("rotate", t.rotation[1], 0))
            /\ (list = <<>>) <=> (styles[i].transform = None)

\* C15: the crop is present iff one of the four crop fields is non-zero; it
\* lists top, right, bottom, left with absent fields as 0 and the values as
\* they are, whatever x, y, scale and rotation are.
C15_CropIndependent ==
    \A i \in 1..Len(styles) :
        LET t == TransformOf(paintOrder[i])
            insets == <<OrZero(t.cropTop), OrZero(t.cropRight),
                        OrZero(t.cropBottom), OrZero(t.cropLeft)>>
        IN  styles[i].clipPath =
                IF \E k \in 1..4 : insets[k] # 0 THEN Some(insets) ELSE None

\* A transform with scale 2, a left crop of 50, a negative top crop and a
\* right crop over 100: the insets are the fields as they are.
C15_Witness ==
    /\ Len(styles) = 1
    /\ TransformOf(paintOrder[1]).scale = Some(2)
    /\ styles[1].clipPath = Some(<<-5, 150, 0, 50>>)

\* C16: the resolved opacity is transform.opacity whenever the field is
\* present (0 and out-of-range values included) and 1 when the transform or
\* the field is absent.
C16_OpacityPassThrough ==
    \A i \in 1..Len(styles) :
        LET tr == paintOrder[i].transform
        IN  styles[i].opacity =
                IF tr = None THEN 1
                ELSE IF tr[1].opacity = None THEN 1
                ELSE tr[1].opacity[1]

\* An opacity of 0 that is present resolves to 0.
C16_Witness ==
    /\ Len(styles) = 1
    /\ paintOrder[1].transform # None
    /\ paintOrder[1].transform[1].opacity = Some(0)
    /\ styles[1].opacity = 0

\* C11: while a base layer is present, every change of isPlaying to true
\* issues a play request to the base layer's element and every change to
\* false a pause request, and the element of a layer that becomes the base
\* while isPlaying is true is asked to play.
C11_PlayPauseFollowsIntent ==
    [][base' # None =>
          LET el == base'[1].id
              issued(o) == \E k \in 1..Len(ops') : ops'[k] = o
          IN  /\ (isPlaying' /\ ~isPlaying) => issued(PlayOp(el))
              /\ (~isPlaying' /\ isPlaying) => issued(PauseOp(el))
              /\ (isPlaying' /\ (base = None \/ base[1].id # el)) => issued(PlayOp(el))]_vars

\* C12: no element of a layer that does not qualify as base (a track other
\* than 'V1', or a kind other than video) is played, paused or sought, and
\* none is held by videoRef.
C12_OverlaysUntouched ==
    LET qualifies(id) ==
            \E i \in 1..Len(paintOrder) :
                /\ paintOrder[i].id = id
                /\ paintOrder[i].trackId = "V1"
                /\ paintOrder[i].type = "video"
    IN  /\ videoRef # NULL => qualifies(videoRef)
        /\ \A k \in 1..Len(ops) : qualifies(ops[k].el)

\* A play request issued while a video overlay is rendered above the base.
C12_Witness ==
    /\ isPlaying
    /\ \E i \in 1..Len(paintOrder) :
           paintOrder[i].type = "video" /\ paintOrder[i].trackId # "V1"
    /\ \E k \in 1..Len(ops) : ops[k].op = "play"

\* C17: the core never changes the layer set it was given: after every event
\* the layers are, in order and in every field, what the owner last supplied.
C17_InputUntouched ==
    layers = supplied

\* A pointer-move of a drag that emitted a request, on a layer set that the
\* ordering resolver paints in another order than it was supplied in.
C17_Witness ==
    /\ pointer.kind = "mousemove"
    /\ emitted # <<>>
    /\ paintOrder # supplied
    /\ layers = supplied

\* C18: a rejected play request is not retried: while isPlaying stays true no
\* further play request is issued to the element that rejected one, whatever
\* props change follows.
C18_NoRetryAfterRejection ==
    [][\A j \in 1..Len(ops) :
          (/\ isPlaying
           /\ isPlaying'
           /\ ops[j].op = "play"
           /\ dom[ops[j].el].paused)
          => \A k \in 1..Len(ops') : ops'[k] # PlayOp(ops[j].el)]_vars

\* C19: while no layer qualifies as base, no element is held and no render
\* pass, props change or seekTo performs a media operation; the layers are
\* still rendered with their styles.
C19_UnboundIsInert ==
    base = None =>
        /\ videoRef = NULL
        /\ ops = <<>>
        /\ Len(styles) = Len(paintOrder)

\* No base layer while isPlaying is true and a video overlay is rendered.
C19_Witness ==
    /\ base = None
    /\ isPlaying
    /\ videoRef = NULL
    /\ \E i \in 1..Len(paintOrder) : paintOrder[i].type = "video"
    /\ Len(styles) = Len(paintOrder)

\* C20: a qualifying pointer-down on layer L records the pointer's client
\* coordinates and L's transform x and y at that moment (0 for an absent
\* field or transform) and emits onLayerSelect(L); no other event of the
\* gesture emits onLayerSelect.
C20_DragEntry ==
    /\ (pointer.kind = "mousedown" /\ pointer.button = 0 /\ pointer.trackId # "V1") =>
           \E i \in 1..Len(layers) :
               LET tr == layers[i].transform
                   ox == IF tr = None THEN 0
                         ELSE IF tr[1].x = None THEN 0 ELSE tr[1].x[1]
                   oy == IF tr = None THEN 0
                         ELSE IF tr[1].y = None THEN 0 ELSE tr[1].y[1]
               IN  /\ layers[i].id = pointer.id
                   /\ gesture # None
                   /\ draggingLayer = pointer.id
                   /\ dragStart = Some([x |-> gesture[1].x, y |-> gesture[1].y,
                                        layerX |-> ox, layerY |-> oy])
                   /\ emitted = <<SelectRequest(pointer.id)>>
    /\ pointer.kind # "mousedown" =>
           \A k \in 1..Len(emitted) : emitted[k].req # "onLayerSelect"

\* A qualifying pointer-down, away from the client origin, on a layer that an
\* earlier drag had moved to (1, 0).
C20_Witness ==
    /\ pointer.kind = "mousedown"
    /\ draggingLayer = pointer.id
    /\ dragStart # None
    /\ dragStart[1].x # 0
    /\ dragStart[1].layerX = 1
    /\ dragStart[1].layerY = 0
    /\ emitted = <<SelectRequest(pointer.id)>>

\* C21: there is at most one pair of window listeners, it exists iff a drag
\* session is active, and it is the pair of that session; none is left once
\* the session has ended or the component is unmounted.
C21_ListenersWhileSession ==
    /\ Len(listeners) <= 1
    /\ listeners # <<>> <=> (mounted /\ draggingLayer # NULL /\ dragStart # None)
    /\ listeners # <<>> => listeners[1] = Closure(draggingLayer, dragStart)

\* The component was unmounted in the middle of a gesture.
C21_Witness ==
    /\ ~mounted
    /\ gesture # None
    /\ listeners = <<>>

\* C22: whenever a drag session exists, its layerId is the id of exactly one
\* layer of the current layer set, and that layer is not on the base track.
C22_SessionLayerIsOverlay ==
    draggingLayer # NULL =>
        /\ Cardinality({i \in 1..Len(layers) : layers[i].id = draggingLayer}) = 1
        /\ \A i \in 1..Len(layers) :
               layers[i].id = draggingLayer => layers[i].trackId # "V1"

\* C26: a painted layer's cursor hint is 'grabbing' iff its id is the drag
\* session's layerId and is unset otherwise; at most one layer carries the
\* hint and none does without a session.
C26_CursorHint ==
    /\ Len(styles) = Len(paintOrder)
    /\ \A i \in 1..Len(styles) :
           /\ styles[i].cursor \in {None, <<"grabbing">>}
           /\ styles[i].cursor # None <=> paintOrder[i].id = draggingLayer
    /\ Cardinality({i \in 1..Len(styles) : styles[i].cursor # None}) <= 1
    /\ draggingLayer = NULL => \A i \in 1..Len(styles) : styles[i].cursor = None

\* Two painted layers during a drag: one carries the hint, the other none.
C26_Witness ==
    /\ draggingLayer # NULL
    /\ Len(styles) = 2
    /\ \E i, j \in 1..2 : styles[i].cursor = <<"grabbing">> /\ styles[j].cursor = None

\* C27: the render output holds the drag indicator iff a drag session is
\* active, whatever the layer set is.
C27_IndicatorWhileSession ==
    mounted => (indicator <=> draggingLayer # NULL)

\* C28: the pointer handlers emit nothing but one onLayerSelect at a
\* pointer-down that starts a gesture and onLayerMove at pointer-moves during
\* a session; pointer-moves without a session, pointer-ups and render passes
\* emit nothing.
C28_OnlySelectAndMove ==
    /\ \A k \in 1..Len(emitted) :
           \/ /\ emitted[k].req = "onLayerSelect"
              /\ pointer.kind = "mousedown"
              /\ emitted[k].layerId = pointer.id
           \/ /\ emitted[k].req = "onLayerMove"
              /\ pointer.kind = "mousemove"
              /\ pointer.prev # NULL
              /\ emitted[k].layerId = pointer.prev
    /\ Cardinality({k \in 1..Len(emitted) : emitted[k].req = "onLayerSelect"}) <= 1
    /\ pointer.kind = "mousedown" => Len(emitted) <= 1

\* A pointer-move without a session, after an earlier drag had moved a layer.
C28_Witness ==
    /\ pointer.kind = "mousemove"
    /\ pointer.prev = NULL
    /\ emitted = <<>>
    /\ \E i \in 1..Len(layers) : layers[i].transform # None

\* C24: the layer at position p of the paint order (counted from 1) is
\* resolved with zIndex p: the z-indices of n layers are exactly 1..n,
\* pairwise distinct, never 0 and strictly increasing along the paint order.
C24_ZIndexIsPosition ==
    /\ Len(styles) = Len(paintOrder)
    /\ \A i \in 1..Len(styles) : styles[i].zIndex = i /\ styles[i].zIndex # 0
    /\ {styles[i].zIndex : i \in 1..Len(styles)} = 1..Len(paintOrder)
    /\ \A i \in 1..Len(styles) : \A j \in (i + 1)..Len(styles) :
           styles[i].zIndex < styles[j].zIndex

\* Three layers, painted in another order than they were supplied in.
C24_Witness ==
    /\ Len(styles) = 3
    /\ paintOrder # layers
    /\ styles[3].zIndex = 3

\* C25: for layer sets on the editor's six tracks, every layer on 'V1' comes
\* before, and gets a smaller z-index than, every layer on another track.
C25_BaseTrackAtBottom ==
    \A i \in 1..Len(paintOrder) : \A j \in 1..Len(paintOrder) :
        (paintOrder[i].trackId = "V1" /\ paintOrder[j].trackId # "V1")
            => (i < j /\ styles[i].zIndex < styles[j].zIndex)

\* C29: an absent transform, a transform whose fields are all absent and a
\* transform whose present fields all hold their no-effect value (x, y,
\* rotation and crops 0, scale and opacity 1) resolve to the same styles:
\* the given zIndex, opacity 1, no transform list, no crop and no cursor.
C29_AbsentIsIdentity ==
    \A i \in 1..Len(paintOrder) :
        LET tr == paintOrder[i].transform
            noEffect(f) == IF f = "scale" \/ f = "opacity" THEN <<1>> ELSE <<0>>
        IN  (\/ tr = None
             \/ \A f \in DOMAIN tr[1] : tr[1][f] = None \/ tr[1][f] = noEffect(f))
            => styles[i] = [zIndex |-> i, transform |-> None, opacity |-> 1,
                            clipPath |-> None, cursor |-> None]

\* A transform that spells out the no-effect value of every field.
C29_Witness ==
    /\ Len(paintOrder) = 1
    /\ paintOrder[1].transform # None
    /\ \A f \in DOMAIN paintOrder[1].transform[1] :
           paintOrder[1].transform[1][f] = (IF f = "scale" \/ f = "opacity" THEN <<1>> ELSE <<0>>)
    /\ styles[1].transform = None
    /\ styles[1].opacity = 1

\* C23: a report of data being available by the element that is bound and
\* belongs to the base layer either forces its position to the base layer's
\* clipTime through handleLoaded (the first report) or leaves every element
\* alone (a later one); a report that follows a report of the same element
\* is a later one and forces nothing.
C23_InitialSyncOnce ==
    (loaded # None /\ videoRef = loaded[1].el /\ base # None /\ base[1].id = loaded[1].el) =>
        /\ \/ ops = <<SeekOp(loaded[1].el, base[1].clipTime, "handleLoaded")>>
                /\ dom[loaded[1].el].currentTime = base[1].clipTime
           \/ ops = <<>>
        /\ loaded[1].again => ops = <<>>

\* C30: pollForResult returns as soon as a status response reports
\* 'complete'; when a status response reports 'error' it stops polling and
\* rejects with the reported message, or with 'Processing failed'; after a
\* network or HTTP failure, or a job still in progress, it polls again.
C30_ErrorStopsPolling ==
    poll.responses # <<>> =>
        LET last == poll.responses[Len(poll.responses)]
        IN  /\ last.kind = "complete" => poll.pc = "returned"
            /\ last.kind = "error" =>
                   /\ poll.pc = "rejected"
                   /\ poll.message = (IF last.error = None THEN <<"Processing failed">>
                                      ELSE last.error)
            /\ last.kind \in {"network failure", "http failure", "processing"} =>
                   \/ poll.pc = "polling"
                   \/ poll.pc = "rejected" /\ poll.attempt = poll.maxAttempts

\* C31: pollForResult issues at most maxAttempts status requests; it returns
\* on the first response that reports 'complete' and otherwise rejects with
\* the time-out error after the last attempt; a call that is polling comes
\* to return or to reject.
C31_Completes(i) == poll.responses[i].kind = "complete"

C31_Bounded ==
    /\ poll.requests = Len(poll.responses)
    /\ poll.requests <= poll.maxAttempts
    /\ poll.maxAttempts <= MaxAttempts
    /\ \A i \in 1..(Len(poll.responses) - 1) : ~C31_Completes(i)
    /\ poll.pc = "polling" =>
           /\ poll.requests < poll.maxAttempts
           /\ \A i \in 1..Len(poll.responses) : ~C31_Completes(i)
    /\ poll.pc = "returned" =>
           /\ poll.responses # <<>>
           /\ C31_Completes(Len(poll.responses))
    /\ poll.pc = "rejected" =>
           /\ poll.message = Some(TimedOut)
           /\ poll.requests = poll.maxAttempts
           /\ \A i \in 1..Len(poll.responses) : ~C31_Completes(i)

C31_PollTerminates ==
    /\ []C31_Bounded
    /\ (poll.pc = "polling") ~> (poll.pc \in {"returned", "rejected"})

\* A call that met a failed job, a network failure and a job in progress and
\* timed out after its last attempt.
C31_Witness ==
    /\ poll.pc = "rejected"
    /\ poll.maxAttempts = MaxAttempts
    /\ poll.requests = MaxAttempts
    /\ \E i \in 1..Len(poll.responses) : poll.responses[i].kind = "error"
    /\ \E i \in 1..Len(poll.responses) : poll.responses[i].kind = "network failure"

\* C32: every workflow that sets isProcessing resets isProcessing and
\* processingStatus when it settles, however its try block ended; the panel
\* is processing exactly while a workflow is under way.
C32_ProcessingIsReset ==
    /\ panel.isProcessing <=> panel.workflow # NULL
    /\ panel.workflow # NULL => panel.processingStatus # ""
    /\ panel.workflow = NULL => panel.processingStatus = ""
    /\ panel.settled # None =>
           /\ ~panel.isProcessing
           /\ panel.processingStatus = ""

\* The motion-graphic workflow has returned early from its try block.
C32_Witness ==
    /\ panel.settled = Some([workflow |-> "motion-graphic", outcome |-> "returned early"])
    /\ ~panel.isProcessing
    /\ panel.processingStatus = ""

\* C33: a submitted prompt goes to exactly one place, and a prompt that holds
\* both 'animate' and 'transcript' goes to the transcript-animation workflow.
C33_AnimateTranscriptDispatch ==
    panel.dispatched # None =>
        LET d == panel.dispatched[1]
            lower == toLowerCase(trim(d.prompt))
        IN  /\ d.target \in Workflows \cup {"caption options", "none"}
            /\ d.target \in Workflows => panel.workflow \in {NULL, d.target}
            /\ (includes(lower, "animate") /\ includes(lower, "transcript")) =>
                   /\ d.target = "transcript animation"
                   /\ ~panel.showCaptionOptions

\* C34: at most one message awaits a dimension choice; a dimension choice
\* generates the image for the prompt of the message the user answered; and
\* every submitted prompt has been generated or still awaits a choice.
C34_OneAwaiting ==
    /\ Cardinality(Awaiting(picasso.messages)) <= 1
    /\ picasso.selected # None =>
           picasso.requests[Len(picasso.requests)].prompt = picasso.selected[1]
    /\ \A prompt \in picasso.submitted :
           \/ \E k \in 1..Len(picasso.requests) : picasso.requests[k].prompt = prompt
           \/ \E i \in Awaiting(picasso.messages) :
                  picasso.messages[i].pendingPrompt = Some(prompt)

\* The frame at which the last Sequence ends.
C35_LastSceneEnd ==
    LET last == animation.sequences[Len(animation.sequences)]
    IN  last.from + last.durationInFrames

\* C35: the scenes are laid out back to back (the first from frame 0, each
\* next one from the end of the one before, each for its own duration), and
\* for a non-empty scene list without a totalDuration the duration of the
\* composition is the frame at which the last scene ends.
C35_DurationIsLastSceneEnd ==
    animation.rendered =>
        LET scenes == animation.props.scenes
            sequences == animation.sequences
        IN  /\ Len(sequences) = Len(scenes)
            /\ \A i \in 1..Len(scenes) :
                   /\ sequences[i].durationInFrames = scenes[i].duration
                   /\ sequences[i].from =
                          IF i = 1 THEN 0
                          ELSE sequences[i - 1].from + sequences[i - 1].durationInFrames
            /\ (Len(scenes) > 0 /\ animation.props.totalDuration = None) =>
                   animation.durationInFrames = C35_LastSceneEnd

====
